---- MODULE Spec2Model ----
(***************************************************************************)
(* Model of the bot-configuration store of astra-agent:                    *)
(*   repository/bot_config_client.py  (BotConfigClient: cache-aside store) *)
(*   service/publish_service.py       (PublishService: publish bitmask)    *)
(*   consts/publish_status.py         (Platform bitmask helpers)           *)
(* The durable store (MySQL table of TbBotConfig rows) is the bag db, the  *)
(* volatile cache (Redis) is the function cache from bot_id to an entry.   *)
(* Every handler is one action; last records the handler that ran, its     *)
(* arguments and its outcome.                                              *)
(***************************************************************************)
EXTENDS Integers, FiniteSets, Sequences, Bags, TLC

VARIABLES db, cache, last, auth, remote, lru, flight

vars == <<db, cache, last, auth, remote, lru, flight>>

(* The state outside the configuration store: the decision cache of       *)
(* AuthService, the authorization service, the key cache of AuthMiddleware *)
(* and the pulls that are between their query and their write-back.        *)
outside == <<auth, remote, lru, flight>>

----------------------------------------------------------------------------
(* Bounds of the model *)

MaxRecords == 2
RedisExpire == 2
MaxSize == 2

Tenants == {"A", "B"}
Bots == {"b1"}
Labels == {"v1"}
Cfgs == {"c1", "c2"}
PublishDataInputs == {<<>>}

(* Program constants *)

MainVersion == "-1"
XINGCHEN == 1
KAIFANG == 4
AIUI == 16
AllPlatforms == {XINGCHEN, KAIFANG, AIUI}
Platforms == {XINGCHEN}

OK == 0
NotFound == 40001
Conflict == 40053
Published == 40063
Forbidden == 40300

Versions == {MainVersion} \cup Labels

----------------------------------------------------------------------------
(* consts/publish_status.py *)

RECURSIVE BitAnd(_, _)
BitAnd(a, b) ==
    IF a = 0 \/ b = 0 THEN 0
    ELSE (IF a % 2 = 1 /\ b % 2 = 1 THEN 1 ELSE 0) + 2 * BitAnd(a \div 2, b \div 2)

RECURSIVE BitOr(_, _)
BitOr(a, b) ==
    IF a = 0 THEN b
    ELSE IF b = 0 THEN a
    ELSE (IF a % 2 = 1 \/ b % 2 = 1 THEN 1 ELSE 0) + 2 * BitOr(a \div 2, b \div 2)

RECURSIVE BitAndNot(_, _)
BitAndNot(a, b) ==
    IF a = 0 THEN 0
    ELSE (IF a % 2 = 1 /\ b % 2 = 0 THEN 1 ELSE 0) + 2 * BitAndNot(a \div 2, b \div 2)

is_published(publish_status, platform) == BitAnd(publish_status, platform) > 0

add_platform(publish_status, platform) == BitOr(publish_status, platform)

(* unpublish that takes the bot off every platform *)
remove_platformAll(publish_status, platform) == 0

remove_platform(publish_status, platform) == BitAndNot(publish_status, platform)

(* PLATFORM_NAMES: the name of a platform in a message *)
PLATFORM_NAMES(platform) ==
    IF platform = XINGCHEN THEN "XINGCHEN"
    ELSE IF platform = KAIFANG THEN "KAIFANG"
    ELSE "AIUI"

----------------------------------------------------------------------------
(* The durable store: the rows of TbBotConfig, as a bag.  A row of the bag *)
(* is a non-deleted row (the code only ever hard-deletes).  The surrogate  *)
(* key id (get_snowflake_id) is never read by the code and is left out:    *)
(* two rows that agree on every other column are two copies in the bag.    *)

NoRec == [app_id |-> "", bot_id |-> "", version |-> "", cfg |-> "",
          publish_status |-> 0, publish_data |-> <<>>]

Rows(d) == BagToSet(d)
Insert(d, r) == d (+) SetToBag({r})
Remove(d, r) == d (-) SetToBag({r})
Replace(d, old, new) == Insert(Remove(d, old), new)
Count(d, rows) == BagCardinality([r \in rows |-> d[r]])

HasRoom(d) == BagCardinality(d) < MaxRecords

(* session.query(TbBotConfig).filter_by(...).first(): the query has no     *)
(* ORDER BY, so any matching row may be the one returned.                  *)
First(rows) == IF rows = {} THEN {NoRec} ELSE rows

MainRows(d, t, b) ==
    {r \in Rows(d) : r.app_id = t /\ r.bot_id = b /\ r.version = MainVersion}

BotRows(d, t, b) == {r \in Rows(d) : r.app_id = t /\ r.bot_id = b}

VersionRows(d, t, b, v) ==
    {r \in Rows(d) : r.app_id = t /\ r.bot_id = b /\ r.version = v}

(* The filter of pull_from_mysql: app_id is part of it unless cross-app    *)
(* access is allowed.                                                      *)
PullRows(d, t, b, v, cross) ==
    {r \in Rows(d) : r.bot_id = b /\ r.version = v /\ (cross \/ r.app_id = t)}

(* build_bot_config / model_dump_json: the serialized BotConfig *)
Dump(app_id, bot_id, cfg) == <<app_id, bot_id, cfg>>
build_bot_config(rec) == Dump(rec.app_id, rec.bot_id, rec.cfg)
OwnerOf(value) == value[1]
CfgOf(value) == value[3]

----------------------------------------------------------------------------
(* The volatile cache.  ttl = -2: key absent, -1: no expiry, n > 0: n     *)
(* ticks left.                                                             *)

NoEntry == [val |-> <<>>, ttl |-> -2]

redis_get(c, b) == c[b].val
get_ttl(c, b) == c[b].ttl
redis_delete(c, b) == [c EXCEPT ![b] = NoEntry]

(* ex = None stands for Python's None *)
None == 0

set_to_redis(c, b, value, ex) ==
    LET e == IF ex = None THEN RedisExpire ELSE ex
    IN [c EXCEPT ![b] = [val |-> value, ttl |-> e]]

(* a hit that leaves the expiry of the entry running *)
refresh_redis_ttlSkipped(c, b, ex, value) == c

refresh_redis_ttl(c, b, ex, value) ==
    IF get_ttl(c, b) > 0 THEN set_to_redis(c, b, value, ex) ELSE c

(* pull_from_redis: the value returned (<<>> for None) and the cache after *)
RedisValue(c, b) == redis_get(c, b)
RedisAfter(c, b) ==
    IF redis_get(c, b) = <<>> THEN c
    ELSE refresh_redis_ttl(c, b, RedisExpire, redis_get(c, b))

(* pull_from_mysql with rec the row the query returned (NoRec for none) *)
MysqlValue(rec) == IF rec = NoRec THEN <<>> ELSE build_bot_config(rec)

(* pull_from_mysql that writes back whatever version it loaded *)
MysqlAfterAnyVersion(c, b, rec, v) ==
    IF rec # NoRec THEN set_to_redis(c, b, build_bot_config(rec), RedisExpire)
    ELSE c

(* pull_from_mysql without the write-back of lines 187-191 *)
MysqlAfterNoWriteBack(c, b, rec, v) == c

MysqlAfter(c, b, rec, v) ==
    IF rec # NoRec /\ v = MainVersion
    THEN set_to_redis(c, b, build_bot_config(rec), RedisExpire)
    ELSE c

(* "await self.pull_from_redis(sp) or await self.pull_from_mysql(sp, -1)" *)
MainValue(c, b, rec) ==
    IF RedisValue(c, b) # <<>> THEN RedisValue(c, b) ELSE MysqlValue(rec)
MainAfter(c, b, rec) ==
    IF RedisValue(c, b) # <<>> THEN RedisAfter(c, b)
    ELSE MysqlAfter(c, b, rec, MainVersion)
MainReads(c, b) == IF RedisValue(c, b) # <<>> THEN 0 ELSE 1

----------------------------------------------------------------------------
(* What the handler that ran last was given and what it answered: op the  *)
(* handler, t/b/v its tenant, bot and version, code the error code (OK for *)
(* success), val the configuration returned (pull) or written (update),    *)
(* reads the number of durable-store statements it issued, cross the       *)
(* allow_cross_app_access flag of its client, after_miss whether it is a   *)
(* main-version pull that directly follows a main-version pull of the same *)
(* bot that missed the cache and succeeded from the durable store; msg the *)
(* message of the error raised ("" for success), p the platform argument   *)
(* (0 for none), s the publish_status that publish or unpublish found in   *)
(* the row it fetched, ans the answer of check_published, granted the      *)
(* answer of the authorization service to the boundary check, prior (of an *)
(* unpublish) the publish_status that the directly preceding successful    *)
(* publish of the same bot and platform had found, -1 if there was none,   *)
(* hit (of pull, publish and unpublish) whether the cache held an entry of *)
(* the bot when the handler began, key the key given to the key cache,     *)
(* calls the number of requests the handler sent to the authorization      *)
(* service, was (of bind and check_permission) the value under the         *)
(* decision key when the handler began ("" for none).                      *)
(* no request to the middleware, no lookup at the app_auth service *)
NoRequest == [path |-> "", x_consumer_username |-> "", authorization |-> <<>>]
NoLookup == [kind |-> "", status |-> 0, code |-> 0, appid |-> 0]

Outcome(op, t, b, v, code, value, reads) ==
    [op |-> op, t |-> t, b |-> b, v |-> v, code |-> code, val |-> value,
     reads |-> reads, cross |-> FALSE, after_miss |-> FALSE, msg |-> "",
     p |-> 0, s |-> 0, ans |-> FALSE, granted |-> FALSE, prior |-> -1,
     hit |-> FALSE, key |-> "", calls |-> 0, was |-> "",
     request |-> NoRequest, answer |-> NoLookup]

(* raise AgentExc(code, msg): the outcome o with the message of the error *)
Raised(o, msg) == [o EXCEPT !.msg = msg]

(* The status that outcome o, if it is a successful publish(t, b, p), had  *)
(* found; -1 otherwise                                                     *)
PublishedBefore(o, t, b, p) ==
    IF o.op = "publish" /\ o.code = OK /\ o.t = t /\ o.b = b /\ o.p = p
    THEN o.s ELSE -1

(* The outcome o of a handler of PublishService called for platform p that *)
(* found publish_status s                                                  *)
OnPlatform(o, p, s) == [o EXCEPT !.p = p, !.s = s]

(* The outcome o of a handler that began with cache c *)
Began(o, c) == [o EXCEPT !.hit = (c[o.b] # NoEntry)]

MissedAndLoaded(o, b) ==
    /\ o.op = "pull" /\ o.v = MainVersion /\ o.b = b
    /\ o.code = OK /\ o.reads > 0

----------------------------------------------------------------------------
(* The authorization service and its client (repository/auth_client.py)    *)

NotPublished == 40060
BindFailed == 40061
BindRejected == 40062
RemoteHttpError == 50001
(* a client that reports a connection failure as an HTTP error *)
RemoteConnectErrorAsHttp == RemoteHttpError
RemoteConnectError == 50002
RemoteUnexpected == 50003
RemoteNotConfigured == 50004

(* AuthPermission: one grant in the data of a response *)
AbilityIds == Bots \cup {"b2"}
AuthTypes == {"agent", "tool"}
AuthPermissions ==
    [app_id : Tenants, ability_id : AbilityIds, type : AuthTypes,
     status : {0, 1}]

(* What the authorization service does with the next request.  kind is    *)
(* "unconfigured" when AUTH_API_URL is empty, "http_error" when the HTTP   *)
(* client raises httpx.HTTPStatusError, "connect_error" and "timeout" when *)
(* it raises httpx.RequestError (httpx.TimeoutException is one),           *)
(* "malformed" when the body is not the JSON of an AuthResponse, and       *)
(* "response" when it answers with HTTP status status and a body with      *)
(* code code and data data.                                                *)
Remote(kind, status, code, data) ==
    [kind |-> kind, status |-> status, code |-> code, data |-> data]
Unconfigured == Remote("unconfigured", 0, 0, {})
Failures ==
    {Remote(k, 0, 0, {}) :
       k \in {"unconfigured", "http_error", "connect_error", "timeout",
              "malformed"}}
HttpStatuses == {200, 500}
ResponseCodes == {0, 1}
Responses(datas) ==
    {Remote("response", st, c, d) :
       st \in HttpStatuses, c \in ResponseCodes, d \in datas}

(* The result of a call of the client: code the code of the AgentExc       *)
(* raised (OK when it returned), ret the value returned, calls the number  *)
(* of requests sent, msg the message of the error.                         *)
ClientResult(code, ret, calls, msg) ==
    [code |-> code, ret |-> ret, calls |-> calls, msg |-> msg]

(* The part the three methods share: the errors raised before the body of *)
(* a 200 response is looked at.  non200 is the code a non-200 status ends  *)
(* in, unexpected the message prefix of the catch-all handler.             *)
ClientFailure(r, non200, unexpected) ==
    IF r.kind = "unconfigured"
    THEN ClientResult(RemoteNotConfigured, FALSE, 0,
                      "Auth service not configured")
    ELSE IF r.kind = "http_error"
    THEN ClientResult(RemoteHttpError, FALSE, 1,
                      "Auth service returned error")
    ELSE IF r.kind \in {"connect_error", "timeout"}
    THEN ClientResult(RemoteConnectError, FALSE, 1,
                      "Failed to connect to auth service")
    ELSE IF r.kind = "malformed"
    THEN ClientResult(RemoteUnexpected, FALSE, 1, unexpected)
    ELSE IF r.status # 200
    THEN ClientResult(non200, FALSE, 1,
                      IF non200 = RemoteHttpError
                      THEN "Auth service returned error" ELSE unexpected)
    ELSE ClientResult(OK, FALSE, 1, "")

(* the loop of verify_permission with the status of the grant ignored *)
MatchesAnyStatus(perm, app_id, bot_id, type) ==
    /\ perm.app_id = app_id
    /\ perm.ability_id = bot_id
    /\ perm.type = type

(* verify_permission: the test of one entry of the data *)
Matches(perm, app_id, bot_id, type) ==
    /\ perm.app_id = app_id
    /\ perm.ability_id = bot_id
    /\ perm.type = type
    /\ perm.status = 1

(* a client that answers "no permission" when the service fails *)
verify_permissionDenies(app_id, type, bot_id, r) ==
    LET f == ClientFailure(r, RemoteHttpError, "Auth verification failed")
    IN IF f.code # OK \/ r.code # 0 THEN ClientResult(OK, FALSE, f.calls, "")
       ELSE ClientResult(OK,
                         \E perm \in r.data :
                            Matches(perm, app_id, bot_id, type),
                         1, "")

(* AuthClient.verify_permission *)
verify_permission(app_id, type, bot_id, r) ==
    LET f == ClientFailure(r, RemoteHttpError, "Auth verification failed")
    IN IF f.code # OK THEN f
       ELSE IF r.code # 0 THEN ClientResult(OK, FALSE, 1, "")
       ELSE ClientResult(OK,
                         \E perm \in r.data :
                            Matches(perm, app_id, bot_id, type),
                         1, "")

(* AuthClient.get_permissions: the error raised for a non-200 status       *)
(* formats a name, bot_id, that the method does not have; the NameError is *)
(* caught by the catch-all handler.                                        *)
get_permissions(app_id, r) ==
    LET f == ClientFailure(r, RemoteUnexpected, "Failed to get permissions")
    IN IF f.code # OK THEN [f EXCEPT !.ret = {}]
       ELSE ClientResult(OK, IF r.code # 0 THEN {} ELSE r.data, 1, "")

(* AuthClient.bind_permission *)
bind_permission(app_id, bot_id, r) ==
    LET f == ClientFailure(r, RemoteHttpError, "Authorization bind failed")
    IN IF f.code # OK THEN f
       ELSE IF r.code # 0
       THEN ClientResult(BindRejected, FALSE, 1, "Authorization bind failed")
       ELSE ClientResult(OK, TRUE, 1, "")

----------------------------------------------------------------------------
(* The decision cache of AuthService: the keys agent:auth:{app_id}:{bot_id} *)
(* of the volatile cache, each "NORMAL" or "DENIED" ("" when absent)       *)

NoDecision == [val |-> "", ttl |-> -2]
_get_auth_cache_key(app_id, bot_id) == <<app_id, bot_id>>

(* a set that stores nothing *)
DecisionDropped(value, ex) == NoDecision

(* redis_client.set(cache_key, value, ex=ex): the entry written *)
Decision(value, ex) == [val |-> value, ttl |-> ex]

(* The handlers that are suspended at one of their awaits or between two   *)
(* statements of their transaction, while other handlers run:              *)
(*   pull[b]  the configuration that the query of a main-version pull      *)
(*            returned and that its write-back will set (<<>> for none);   *)
(*   hit[b]   a main-version pull that got the cached value val for tenant *)
(*            t: stage "got" after get, "ttl" after get_ttl returned a     *)
(*            positive TTL and before set ("" for none);                   *)
(*   pub[<<b, p>>] the row that the query of a publish of b to p returned  *)
(*            and that its commit has not yet written back (NoRec for      *)
(*            none), and gone: the row has been deleted since;             *)
(*   del[b]   the tenant whose delete of b has passed its published check  *)
(*            and has not yet removed the rows ("" for none);              *)
(*   ok[b]    the platforms for which a publish of b returned success;     *)
(*   chk[k]   the sentinel that a check of key k is about to set after the *)
(*            authorization service answered ("" for none), and bound:     *)
(*            a bind of k succeeded since that answer.                     *)
NoHit == [stage |-> "", t |-> "", val |-> <<>>]
NoCheck == [val |-> "", bound |-> FALSE]
NoPub == [row |-> NoRec, gone |-> FALSE]
NoFlight ==
    [pull |-> [b \in Bots |-> <<>>],
     hit  |-> [b \in Bots |-> NoHit],
     pub  |-> [k \in Bots \X AllPlatforms |-> NoPub],
     del  |-> [b \in Bots |-> ""],
     ok   |-> [b \in Bots |-> {}],
     chk  |-> [k \in Tenants \X Bots |-> NoCheck]]

(* LRUCache() of AuthMiddleware: _cache is the OrderedDict as the sequence *)
(* of its <<key, value>> items, oldest first.  touched and latest are the  *)
(* history of the cache: the keys that a set or a hitting get touched, the *)
(* least recently touched first, and the value last set under each key     *)
(* (None if the key was never set).                                        *)
LruKeys == {"a", "b", "c", "d"}
LruVals == {1, 2, 3}
NewLRUCache ==
    [_cache |-> <<>>, touched |-> <<>>, latest |-> [k \in LruKeys |-> None]]

Init ==
    /\ db = EmptyBag
    /\ cache = [b \in Bots |-> NoEntry]
    /\ last = Outcome("init", "", "", "", OK, <<>>, 0)
    /\ auth = [k \in Tenants \X Bots |-> NoDecision]
    /\ remote = Unconfigured
    /\ lru = NewLRUCache
    /\ flight = NoFlight

(* an exception that is not an AgentExc leaves the handler *)
Uncaught == -1

(* pull_from_redis: AgentExc(40003, "invalid bot config") *)
DataCorruption == 40003

(* Payloads that only another writer of the shared cache can leave under   *)
(* the key of a bot: one that json.loads rejects, and one that is JSON but *)
(* not a configuration, for which the BotConfig constructor raises.        *)
Garbled == <<"{">>
Misshapen == <<"{}">>

(* pull_from_redis: what json.loads and build_bot_config raise for the     *)
(* cached value, OK for a configuration or no value                        *)
PayloadError(value) ==
    IF value = Garbled THEN DataCorruption
    ELSE IF value = Misshapen THEN Uncaught
    ELSE OK

(* a handler that removes the payload it cannot read *)
InvalidBotConfigRemoved(op, t, b, v) ==
    /\ UNCHANGED outside
    /\ db' = db
    /\ cache' = redis_delete(cache, b)
    /\ last' = Began(Outcome(op, t, b, v, PayloadError(RedisValue(cache, b)),
                             <<>>, 0),
                     cache)

(* pull, add, update or delete whose pull_from_redis raises: the TTL was   *)
(* refreshed before the value is parsed, nothing else is done              *)
InvalidBotConfig(op, t, b, v) ==
    /\ UNCHANGED outside
    /\ db' = db
    /\ cache' = RedisAfter(cache, b)
    /\ last' = Began(Raised(Outcome(op, t, b, v,
                                    PayloadError(RedisValue(cache, b)),
                                    <<>>, 0),
                            IF RedisValue(cache, b) = Garbled
                            THEN "invalid bot config" ELSE ""),
                     cache)

(* BotConfigClient.pull *)
Pull(t, b, v, cross) ==
    IF v = MainVersion /\ PayloadError(RedisValue(cache, b)) # OK
    THEN InvalidBotConfig("pull", t, b, v)
    ELSE /\ UNCHANGED outside
         /\ \E rec \in First(PullRows(db, t, b, v, cross)) :
              LET value == IF v = MainVersion THEN MainValue(cache, b, rec)
                           ELSE MysqlValue(rec)
                  after == IF v = MainVersion THEN MainAfter(cache, b, rec)
                           ELSE MysqlAfter(cache, b, rec, v)
                  reads == IF v = MainVersion THEN MainReads(cache, b) ELSE 1
                  code  == IF value = <<>> THEN NotFound
                           ELSE IF ~cross /\ OwnerOf(value) # t THEN NotFound
                           ELSE OK
                  msg   == IF code = OK THEN "" ELSE "failed to retrieve bot config"
              IN /\ cache' = after
                 /\ db' = db
                 /\ last' = [Began(Outcome("pull", t, b, v, code,
                                           IF code = OK THEN value ELSE <<>>, reads),
                                     cache)
                               EXCEPT !.cross = cross,
                                      !.msg = msg,
                                      !.after_miss = (v = MainVersion /\
                                                      MissedAndLoaded(last, b))]

(* BotConfigClient.add *)
Add(t, b, cfg) ==
    IF PayloadError(RedisValue(cache, b)) # OK
    THEN InvalidBotConfig("add", t, b, MainVersion)
    ELSE /\ UNCHANGED outside
         /\ \E rec \in First(PullRows(db, t, b, MainVersion, FALSE)) :
              LET value == MainValue(cache, b, rec)
                  after == MainAfter(cache, b, rec)
              IN /\ cache' = after
                 /\ IF value # <<>>
                    THEN /\ db' = db
                         /\ last' = Raised(Outcome("add", t, b, MainVersion, Conflict,
                                                   <<>>, MainReads(cache, b)),
                                           "bot config main version already exists, cannot create")
                    ELSE /\ HasRoom(db)
                         /\ db' = Insert(db, [app_id |-> t, bot_id |-> b,
                                               version |-> MainVersion, cfg |-> cfg,
                                               publish_status |-> 0,
                                               publish_data |-> <<>>])
                         /\ last' = Outcome("add", t, b, MainVersion, OK, <<>>,
                                            MainReads(cache, b) + 1)

(* update that leaves the configuration columns of the row as they were *)
UpdatedRowStale(record, cfg) == record

(* BotConfigClient.update: the row with the configuration columns set *)
UpdatedRow(record, cfg) == [record EXCEPT !.cfg = cfg]

(* BotConfigClient.update: the cache refresh at the end of the handler *)
UpdateRefresh(c, b, value) ==
    IF RedisValue(c, b) = <<>> THEN c
    ELSE LET c1 == RedisAfter(c, b)
             ttl_key == get_ttl(c1, b)
         IN IF ttl_key = -1 THEN set_to_redis(c1, b, value, None)
            ELSE IF ttl_key > 0 THEN set_to_redis(c1, b, value, None)
            ELSE c1

(* BotConfigClient.update *)
Update(t, b, cfg) ==
    IF PayloadError(RedisValue(cache, b)) # OK
    THEN InvalidBotConfig("update", t, b, MainVersion)
    ELSE /\ UNCHANGED outside
         /\ \E rec \in First(PullRows(db, t, b, MainVersion, FALSE)),
               record \in First(MainRows(db, t, b)) :
              LET value == MainValue(cache, b, rec)
                  after == MainAfter(cache, b, rec)
                  reads == MainReads(cache, b)
              IN IF value = <<>> \/ OwnerOf(value) # t
                 THEN /\ cache' = after
                      /\ db' = db
                      /\ last' = Raised(Outcome("update", t, b, MainVersion, NotFound,
                                                <<>>, reads),
                                        IF value = <<>>
                                        THEN "Main version not found, cannot update"
                                        ELSE "failed to retrieve bot config")
                 ELSE /\ db' = IF record = NoRec THEN db
                               ELSE Replace(db, record, UpdatedRow(record, cfg))
                      /\ cache' = UpdateRefresh(after, b, Dump(t, b, cfg))
                      /\ last' = Outcome("update", t, b, MainVersion, OK,
                                         Dump(t, b, cfg), reads + 1)

(* BotConfigClient.delete *)
Delete(t, b) ==
    IF PayloadError(RedisValue(cache, b)) # OK
    THEN InvalidBotConfig("delete", t, b, MainVersion)
    ELSE /\ UNCHANGED outside
         /\ \E rec \in First(PullRows(db, t, b, MainVersion, FALSE)),
               record \in First(MainRows(db, t, b)) :
              LET value == MainValue(cache, b, rec)
                  after == MainAfter(cache, b, rec)
                  reads == MainReads(cache, b)
              IN IF value = <<>> \/ OwnerOf(value) # t
                 THEN /\ cache' = after
                      /\ db' = db
                      /\ last' = Raised(Outcome("delete", t, b, MainVersion, NotFound,
                                                <<>>, reads),
                                        IF value = <<>>
                                        THEN "Main version not found, cannot delete"
                                        ELSE "failed to retrieve bot config")
                 ELSE IF record # NoRec /\ record.publish_status > 0
                 THEN /\ cache' = after
                      /\ db' = db
                      /\ last' = Raised(Outcome("delete", t, b, MainVersion, Published,
                                                <<>>, reads + 1),
                                        "Cannot delete published bot. Please unpublish first.")
                 ELSE /\ db' = [r \in Rows(db) \ BotRows(db, t, b) |-> db[r]]
                      /\ cache' = IF RedisValue(after, b) # <<>>
                                  THEN redis_delete(RedisAfter(after, b), b)
                                  ELSE after
                      /\ last' = Outcome("delete", t, b, MainVersion, OK, <<>>,
                                         reads + 2)

(* publish or unpublish that leaves the cache entry of the bot in place *)
_clear_cacheSkipped(c, b) == c

(* PublishService._clear_cache: delete the key of the bot's configuration *)
_clear_cache(c, b) == redis_delete(c, b)

(* PublishService._handle_version: the rows after the snapshot of         *)
(* bot_config under label version was created or refreshed and the        *)
(* version of bot_config was set to "-1".  d already holds bot_config      *)
(* with its new publish status and data; existing is the row the lookup    *)
(* returned, and same tells whether that row is bot_config itself.         *)
_handle_version(d, bot_config, version, existing, same) ==
    LET snapshot == [bot_config EXCEPT !.version = version]
        refreshed == [existing EXCEPT !.cfg = bot_config.cfg,
                        !.publish_status = bot_config.publish_status,
                        !.publish_data = bot_config.publish_data]
        pinned == [bot_config EXCEPT !.version = MainVersion]
    IN IF existing = NoRec
       THEN Replace(Insert(d, snapshot), bot_config, pinned)
       ELSE IF same THEN Replace(d, bot_config, pinned)
       ELSE Replace(Replace(d, existing, refreshed), bot_config, pinned)

(* The rows that the lookup of _handle_version may return, each with the   *)
(* flag same: the row is bot_config itself if bot_config carries the label *)
(* and is the copy returned.                                               *)
ExistingVersion(d, bot_config, version) ==
    LET others == {r \in VersionRows(d, bot_config.app_id, bot_config.bot_id,
                                     version) :
                     r # bot_config \/ d[r] > 1}
        self == IF bot_config.version = version THEN {<<bot_config, TRUE>>}
                ELSE {}
        found == {<<r, FALSE>> : r \in others} \cup self
    IN IF found = {} THEN {<<NoRec, FALSE>>} ELSE found

(* PublishService.publish; version = "" stands for no version label *)
Publish(t, b, platform, publish_data, version) ==
    /\ UNCHANGED outside
    /\ \E bot_config \in First(BotRows(db, t, b)) :
         IF bot_config = NoRec
         THEN /\ UNCHANGED <<db, cache>>
              /\ last' = Began(Raised(OnPlatform(Outcome("publish", t, b, version,
                                                         NotFound, <<>>, 1),
                                                 platform, 0),
                                      "Failed to get bot configuration"),
                               cache)
         ELSE LET new_status == add_platform(bot_config.publish_status, platform)
                  data == IF publish_data # <<>> THEN publish_data
                          ELSE build_bot_config(bot_config)
                  published == [bot_config EXCEPT !.publish_status = new_status,
                                                  !.publish_data = data]
                  d1 == Replace(db, bot_config, published)
              IN /\ IF version = ""
                    THEN db' = d1
                    ELSE \E ex \in ExistingVersion(d1, published, version) :
                           /\ ex[1] = NoRec => HasRoom(d1)
                           /\ db' = _handle_version(d1, published, version,
                                                    ex[1], ex[2])
                 /\ cache' = _clear_cache(cache, b)
                 /\ last' = Began(OnPlatform(Outcome("publish", t, b, version, OK,
                                                     <<>>,
                                                     IF version = "" THEN 1 ELSE 2),
                                             platform, bot_config.publish_status),
                                  cache)

(* PublishService.unpublish *)
Unpublish(t, b, platform) ==
    /\ UNCHANGED outside
    /\ \E bot_config \in First(BotRows(db, t, b)) :
         LET o(code, status) ==
               [Began(OnPlatform(Outcome("unpublish", t, b, "", code, <<>>, 1),
                                 platform, status),
                      cache)
                  EXCEPT !.prior = PublishedBefore(last, t, b, platform)]
         IN IF bot_config = NoRec
            THEN /\ UNCHANGED <<db, cache>>
                 /\ last' = Raised(o(NotFound, 0),
                                   "Failed to get bot configuration")
            ELSE IF ~is_published(bot_config.publish_status, platform)
            THEN /\ UNCHANGED <<db, cache>>
                 /\ last' = Raised(o(Published, bot_config.publish_status),
                                   "Bot config not published to "
                                      \o PLATFORM_NAMES(platform))
            ELSE LET new_status == remove_platform(bot_config.publish_status,
                                                   platform)
                     data == IF new_status = 0 THEN <<>>
                             ELSE bot_config.publish_data
                 IN /\ db' = Replace(db, bot_config,
                                    [bot_config EXCEPT
                                       !.publish_status = new_status,
                                       !.publish_data = data])
                    /\ cache' = _clear_cache(cache, b)
                    /\ last' = o(OK, bot_config.publish_status)

(* PublishService.check_published; platform = None stands for no platform *)
CheckPublished(t, b, platform) ==
    /\ UNCHANGED outside
    /\ \E bot_config \in First(BotRows(db, t, b)) :
         /\ UNCHANGED <<db, cache>>
         /\ IF bot_config = NoRec
            THEN last' = Raised(OnPlatform(Outcome("check_published", t, b, "",
                                                   NotFound, <<>>, 1),
                                           platform, 0),
                                "Failed to get bot configuration")
            ELSE last' = [OnPlatform(Outcome("check_published", t, b, "", OK,
                                             <<>>, 1),
                                     platform, bot_config.publish_status)
                            EXCEPT !.ans =
                              IF platform # None
                              THEN is_published(bot_config.publish_status, platform)
                              ELSE bot_config.publish_status > 0]

(* a boundary check that knows no owner *)
is_ownerNever(value, t) == FALSE

(* verify_bot_permission: bot_config.app_id == app_id *)
is_owner(value, t) == OwnerOf(value) = t

(* verify_bot_permission / verify_bot_permission_from_body: the check at   *)
(* the API boundary.  has_permission is the answer of                      *)
(* AuthClient.verify_permission, that is, of the authorization service.    *)
VerifyBotPermission(t, b, has_permission) ==
    /\ UNCHANGED outside
    /\ \E rec \in First(PullRows(db, t, b, MainVersion, TRUE)) :
         LET value == MainValue(cache, b, rec)
             after == MainAfter(cache, b, rec)
             reads == MainReads(cache, b)
             o(code) == [Outcome("verify_bot_permission", t, b, MainVersion, code,
                                 <<>>, reads)
                           EXCEPT !.cross = TRUE]
         IN /\ cache' = after
            /\ db' = db
            /\ IF value = <<>>
               THEN last' = Raised(o(NotFound),
                                   "Bot not found or access denied: "
                                     \o "failed to retrieve bot config")
               ELSE IF is_owner(value, t)
               THEN last' = o(OK)
               ELSE IF has_permission
               THEN last' = [o(OK) EXCEPT !.granted = TRUE, !.calls = 1]
               ELSE last' = [Raised(o(Forbidden),
                                    "Permission denied: app does not have access to this bot")
                               EXCEPT !.calls = 1]

(* The cache's clock: one tick of the expiry timer of every timed entry *)
Tick ==
    /\ UNCHANGED outside
    /\ \E b \in Bots : cache[b].ttl > 0
    /\ cache' = [b \in Bots |->
                   IF cache[b].ttl > 1
                   THEN [cache[b] EXCEPT !.ttl = cache[b].ttl - 1]
                   ELSE IF cache[b].ttl = 1 THEN NoEntry
                   ELSE cache[b]]
    /\ db' = db
    /\ last' = Outcome("tick", "", "", "", OK, <<>>, 0)

(* An entry that some other writer of the shared cache made persistent:   *)
(* the no-expiry entries that refresh_redis_ttl and update provide for.    *)
Persist(b) ==
    /\ UNCHANGED outside
    /\ cache[b].ttl > 0
    /\ cache' = [cache EXCEPT ![b].ttl = -1]
    /\ db' = db
    /\ last' = Outcome("persist", "", b, "", OK, <<>>, 0)

Next ==
    \/ \E t \in Tenants, b \in Bots, v \in Versions, cross \in BOOLEAN :
          Pull(t, b, v, cross)
    \/ \E t \in Tenants, b \in Bots, cfg \in Cfgs : Add(t, b, cfg)
    \/ \E t \in Tenants, b \in Bots, cfg \in Cfgs : Update(t, b, cfg)
    \/ \E t \in Tenants, b \in Bots : Delete(t, b)
    \/ \E t \in Tenants, b \in Bots, p \in Platforms,
          pd \in PublishDataInputs, v \in Labels \cup {""} :
          Publish(t, b, p, pd, v)
    \/ \E t \in Tenants, b \in Bots, p \in Platforms : Unpublish(t, b, p)
    \/ \E t \in Tenants, b \in Bots, has_permission \in BOOLEAN :
          VerifyBotPermission(t, b, has_permission)
    \/ Tick
    \/ \E b \in Bots : Persist(b)

Spec == Init /\ [][Next]_vars

(* The publish state machine of one tenant's bot on two platforms and two  *)
(* version labels: the handlers of PublishService, with add, update and    *)
(* delete of BotConfigClient to create, change and remove the bot.         *)
PubTenants == {"A"}
PubPlatforms == {XINGCHEN, AIUI}
PubLabels == {"v1", "v2"}

PubNext ==
    \/ \E t \in PubTenants, b \in Bots, cfg \in Cfgs : Add(t, b, cfg)
    \/ \E t \in PubTenants, b \in Bots, cfg \in Cfgs : Update(t, b, cfg)
    \/ \E t \in PubTenants, b \in Bots : Delete(t, b)
    \/ \E t \in PubTenants, b \in Bots, p \in PubPlatforms,
          pd \in PublishDataInputs, v \in PubLabels \cup {""} :
          Publish(t, b, p, pd, v)
    \/ \E t \in PubTenants, b \in Bots, p \in PubPlatforms :
          Unpublish(t, b, p)
    \/ \E t \in PubTenants, b \in Bots, p \in PubPlatforms \cup {None} :
          CheckPublished(t, b, p)

PubSpec == Init /\ [][PubNext]_vars

----------------------------------------------------------------------------
(* AuthClient (repository/auth_client.py): each method applied to what the *)
(* authorization service does                                              *)

(* AuthClient(type="agent"), as AuthService and the boundary check build it *)
AgentType == "agent"

ClientOutcome(op, app_id, bot_id, res) ==
    [Outcome(op, app_id, bot_id, "", res.code, <<>>, 0)
       EXCEPT !.msg = res.msg, !.calls = res.calls]

VerifyPermission(app_id, bot_id) ==
    /\ UNCHANGED <<db, cache, auth, remote, lru, flight>>
    /\ LET res == verify_permission(app_id, AgentType, bot_id, remote)
       IN last' = [ClientOutcome("verify_permission", app_id, bot_id, res)
                     EXCEPT !.granted = res.ret]

GetPermissions(app_id) ==
    /\ UNCHANGED <<db, cache, auth, remote, lru, flight>>
    /\ last' = ClientOutcome("get_permissions", app_id, "",
                             get_permissions(app_id, remote))

BindPermission(app_id, bot_id) ==
    /\ UNCHANGED <<db, cache, auth, remote, lru, flight>>
    /\ last' = ClientOutcome("bind_permission", app_id, bot_id,
                             bind_permission(app_id, bot_id, remote))

(* The data of a response: at most two grants *)
ClientDatas == {d \in SUBSET AuthPermissions : Cardinality(d) <= 2}
ClientRemotes == Failures \cup Responses(ClientDatas)

ClientInit ==
    /\ db = EmptyBag
    /\ cache = [b \in Bots |-> NoEntry]
    /\ last = Outcome("init", "", "", "", OK, <<>>, 0)
    /\ auth = [k \in Tenants \X Bots |-> NoDecision]
    /\ remote \in ClientRemotes
    /\ lru = NewLRUCache
    /\ flight = NoFlight

ClientNext ==
    \/ \E t \in Tenants, b \in AbilityIds : VerifyPermission(t, b)
    \/ \E t \in Tenants : GetPermissions(t)
    \/ \E t \in Tenants, b \in AbilityIds : BindPermission(t, b)

ClientSpec == ClientInit /\ [][ClientNext]_vars

----------------------------------------------------------------------------
(* AuthService (service/auth_service.py) *)

(* The rows that the query of bind may return: bot_id and version "-1",    *)
(* whatever the tenant                                                     *)
BindRows(d, b) == {r \in Rows(d) : r.bot_id = b /\ r.version = MainVersion}

(* the handlers in flight after a bind of key k succeeded: a check of k    *)
(* that already has its answer is marked *)
Overtaken(f, k) ==
    IF f.chk[k] = NoCheck THEN f ELSE [f EXCEPT !.chk[k].bound = TRUE]

(* AuthService.bind *)
Bind(t, b) ==
    /\ UNCHANGED <<db, cache, remote, lru>>
    /\ \E bot_config \in First(BindRows(db, b)) :
         LET o(code, calls) ==
               [OnPlatform(Outcome("bind", t, b, MainVersion, code, <<>>, 1),
                           0, bot_config.publish_status)
                  EXCEPT !.calls = calls,
                         !.was = auth[_get_auth_cache_key(t, b)].val]
             res == bind_permission(t, b, remote)
         IN IF bot_config = NoRec
            THEN /\ auth' = auth
                 /\ flight' = flight
                 /\ last' = Raised(o(NotFound, 0),
                                   "Failed to get bot configuration")
            ELSE IF bot_config.publish_status = 0
            THEN /\ auth' = auth
                 /\ flight' = flight
                 /\ last' = Raised(o(NotPublished, 0),
                                   "Bot configuration not published, cannot bind authorization")
            ELSE IF res.code # OK
            THEN /\ auth' = auth
                 /\ flight' = flight
                 /\ last' = Raised(o(BindFailed, res.calls),
                                   "Authorization binding failed: " \o res.msg)
            ELSE /\ auth' = [auth EXCEPT ![_get_auth_cache_key(t, b)] =
                                     Decision("NORMAL", RedisExpire)]
                 /\ flight' = Overtaken(flight, _get_auth_cache_key(t, b))
                 /\ last' = o(OK, res.calls)

(* the sentinel written for every answer of the authorization service *)
cache_valueAllow(has_permission) == "NORMAL"

(* AuthService.check_permission: the sentinel of an answer *)
cache_value(has_permission) == IF has_permission THEN "NORMAL" ELSE "DENIED"

(* a hit that sets the expiry of the entry back to the configured one *)
Tier1Sliding(a, k) == [a EXCEPT ![k].ttl = RedisExpire]

(* AuthService.check_permission: the decision cache after a hit; the key   *)
(* is read with get and nothing is written                                 *)
Tier1(a, k) == a

(* a check that never finds the decision cached *)
is_cachedNever(cached_status) == FALSE

(* AuthService.check_permission: if cached_status *)
is_cached(cached_status) == cached_status # ""

(* AuthService.check_permission *)
CheckPermission(t, b) ==
    /\ UNCHANGED <<db, cache, remote, lru, flight>>
    /\ LET cache_key == _get_auth_cache_key(t, b)
           cached_status == auth[cache_key].val
           res == verify_permission(t, AgentType, b, remote)
           o(code, calls) ==
             [Outcome("check_permission", t, b, "", code, <<>>, 0)
                EXCEPT !.calls = calls, !.was = cached_status]
           denied == "Permission denied: app does not have access to this bot"
       IN IF is_cached(cached_status) /\ cached_status = "NORMAL"
          THEN /\ auth' = Tier1(auth, cache_key)
               /\ last' = o(OK, 0)
          ELSE IF is_cached(cached_status) /\ cached_status = "DENIED"
          THEN /\ auth' = Tier1(auth, cache_key)
               /\ last' = Raised(o(Forbidden, 0), denied)
          ELSE IF res.code # OK
          THEN /\ auth' = auth
               /\ last' = Raised(o(res.code, res.calls), res.msg)
          ELSE /\ auth' = [auth EXCEPT ![cache_key] =
                                   Decision(cache_value(res.ret), RedisExpire)]
               /\ last' = IF res.ret
                          THEN [o(OK, res.calls) EXCEPT !.granted = TRUE]
                          ELSE Raised(o(Forbidden, res.calls), denied)

(* The entries of a cache one tick later; none is the absent entry *)
Aged(c, none) ==
    [x \in DOMAIN c |->
       IF c[x].ttl > 1 THEN [c[x] EXCEPT !.ttl = c[x].ttl - 1]
       ELSE IF c[x].ttl = 1 THEN none
       ELSE c[x]]

(* The cache's clock, for the configuration keys and the decision keys *)
Clock ==
    /\ (\E b \in Bots : cache[b].ttl > 0) \/
       (\E k \in DOMAIN auth : auth[k].ttl > 0)
    /\ cache' = Aged(cache, NoEntry)
    /\ auth' = Aged(auth, NoDecision)
    /\ last' = Outcome("tick", "", "", "", OK, <<>>, 0)
    /\ UNCHANGED <<db, remote, lru, flight>>

(* The authorization service changes what it does with the next request *)
RemoteBecomes(r) ==
    /\ remote' = r
    /\ last' = Outcome("remote", "", "", "", OK, <<>>, 0)
    /\ UNCHANGED <<db, cache, auth, lru, flight>>

(* Tenant B asks for bot b1, which A or B may own: the service is down in  *)
(* each way, or answers with or without an enabled grant for B.            *)
Requesters == {"B"}
Granted == {[app_id |-> "B", ability_id |-> "b1", type |-> AgentType,
             status |-> 1]}
AuthRemotes ==
    {Remote(k, 0, 0, {}) :
       k \in {"unconfigured", "http_error", "connect_error", "timeout"}}
    \cup {Remote("response", 500, 0, {}), Remote("response", 200, 1, Granted),
          Remote("response", 200, 0, {}), Remote("response", 200, 0, Granted)}

AuthNext ==
    \/ \E t \in Tenants, b \in Bots : Add(t, b, "c1")
    \/ \E t \in Tenants, b \in Bots : Publish(t, b, XINGCHEN, <<>>, "")
    \/ \E t \in Tenants, b \in Bots : Unpublish(t, b, XINGCHEN)
    \/ \E t \in Requesters, b \in Bots : Bind(t, b)
    \/ \E t \in Requesters, b \in Bots : CheckPermission(t, b)
    \/ \E r \in AuthRemotes : RemoteBecomes(r)
    \/ Clock

AuthSpec == Init /\ [][AuthNext]_vars

----------------------------------------------------------------------------
(* verify_bot_permission with the authorization service it asks: the       *)
(* answer is the one AuthClient.verify_permission computes from remote,    *)
(* and an error of the client is raised as it is (the call is outside the  *)
(* try block).                                                             *)
BoundaryCheck(t, b) ==
    LET res == verify_permission(t, AgentType, b, remote)
    IN IF res.code = OK
       THEN VerifyBotPermission(t, b, res.ret)
       ELSE /\ UNCHANGED outside
            /\ \E rec \in First(PullRows(db, t, b, MainVersion, TRUE)) :
                 LET value == MainValue(cache, b, rec)
                     o(code) == [Outcome("verify_bot_permission", t, b,
                                         MainVersion, code, <<>>,
                                         MainReads(cache, b))
                                   EXCEPT !.cross = TRUE]
                 IN /\ cache' = MainAfter(cache, b, rec)
                    /\ db' = db
                    /\ IF value = <<>>
                       THEN last' = Raised(o(NotFound),
                                           "Bot not found or access denied: "
                                             \o "failed to retrieve bot config")
                       ELSE IF is_owner(value, t)
                       THEN last' = o(OK)
                       ELSE last' = [Raised(o(res.code), res.msg)
                                       EXCEPT !.calls = res.calls]

----------------------------------------------------------------------------
(* check_permission suspended between the answer of the authorization      *)
(* service and the write of the sentinel, so that a bind runs in between.  *)

(* check_permission: the decision cache misses, verify_permission answers *)
CheckAsk(t, b) ==
    LET cache_key == _get_auth_cache_key(t, b)
        cached_status == auth[cache_key].val
        res == verify_permission(t, AgentType, b, remote)
        o == [Outcome("check_permission", t, b, "", res.code, <<>>, 0)
                EXCEPT !.calls = res.calls, !.was = cached_status]
    IN /\ flight.chk[cache_key] = NoCheck
       /\ ~is_cached(cached_status)
       /\ IF res.code # OK
          THEN /\ flight' = flight
               /\ last' = Raised(o, res.msg)
          ELSE /\ flight' = [flight EXCEPT !.chk[cache_key] =
                               [val |-> cache_value(res.ret), bound |-> FALSE]]
               /\ last' = last
       /\ UNCHANGED <<db, cache, auth, remote, lru>>

(* check_permission: redis_client.set(cache_key, cache_value, ex), then    *)
(* the answer is returned or 40300 is raised                               *)
CheckSet(t, b) ==
    LET cache_key == _get_auth_cache_key(t, b)
        value == flight.chk[cache_key].val
        o(code) == [Outcome("check_permission", t, b, "", code, <<>>, 0)
                      EXCEPT !.calls = 1, !.was = auth[cache_key].val]
    IN /\ value # ""
       /\ auth' = [auth EXCEPT ![cache_key] = Decision(value, RedisExpire)]
       /\ flight' = [flight EXCEPT !.chk[cache_key] = NoCheck]
       /\ last' = IF value = "NORMAL"
                  THEN [o(OK) EXCEPT !.granted = TRUE]
                  ELSE Raised(o(Forbidden),
                              "Permission denied: app does not have access to this bot")
       /\ UNCHANGED <<db, cache, remote, lru>>

CheckNext ==
    \/ \E t \in Tenants, b \in Bots : Add(t, b, "c1")
    \/ \E t \in Tenants, b \in Bots : Publish(t, b, XINGCHEN, <<>>, "")
    \/ \E t \in Requesters, b \in Bots : Bind(t, b)
    \/ \E t \in Requesters, b \in Bots : CheckAsk(t, b)
    \/ \E t \in Requesters, b \in Bots : CheckSet(t, b)
    \/ \E r \in AuthRemotes : RemoteBecomes(r)
    \/ Clock

CheckSpec == Init /\ [][CheckNext]_vars

----------------------------------------------------------------------------
(* A main-version pull that is suspended between the query of              *)
(* pull_from_mysql and its write-back to the cache, so that other handlers *)
(* run in between.  flight.pull[b] is the configuration the query returned *)
(* (<<>> when no such pull is suspended).                                  *)

(* pull: pull_from_redis misses, pull_from_mysql queries *)
PullQuery(t, b) ==
    /\ RedisValue(cache, b) = <<>>
    /\ flight.pull[b] = <<>>
    /\ \E rec \in First(PullRows(db, t, b, MainVersion, FALSE)) :
         /\ rec # NoRec
         /\ flight' = [flight EXCEPT !.pull[b] = build_bot_config(rec)]
    /\ UNCHANGED <<db, cache, last, auth, remote, lru>>

(* pull: pull_from_mysql writes the configuration back and returns it *)
PullWriteBack(b) ==
    /\ flight.pull[b] # <<>>
    /\ cache' = set_to_redis(cache, b, flight.pull[b], RedisExpire)
    /\ flight' = [flight EXCEPT !.pull[b] = <<>>]
    /\ last' = Outcome("pull", OwnerOf(flight.pull[b]), b, MainVersion, OK,
                       flight.pull[b], 1)
    /\ UNCHANGED <<db, auth, remote, lru>>

(* One tenant's bot under reads that overlap writes, with the clock of the *)
(* cache running: time passes, so Tick is not postponed forever.           *)
TtlTenants == {"A"}

TtlNext ==
    \/ \E t \in TtlTenants, b \in Bots, cfg \in Cfgs : Add(t, b, cfg)
    \/ \E t \in TtlTenants, b \in Bots, cfg \in Cfgs : Update(t, b, cfg)
    \/ \E t \in TtlTenants, b \in Bots : Delete(t, b)
    \/ \E t \in TtlTenants, b \in Bots :
          Publish(t, b, XINGCHEN, <<>>, "")
    \/ \E t \in TtlTenants, b \in Bots : Unpublish(t, b, XINGCHEN)
    \/ \E t \in TtlTenants, b \in Bots : Pull(t, b, MainVersion, FALSE)
    \/ \E t \in TtlTenants, b \in Bots : PullQuery(t, b)
    \/ \E b \in Bots : PullWriteBack(b)
    \/ Tick

TtlSpec == Init /\ [][TtlNext]_vars /\ WF_vars(Tick)

(* Tenant A owns bot b1 and B asks for it, while pulls are suspended       *)
(* between their query and their write-back and the authorization service  *)
(* changes its answer.                                                     *)
BoundaryRemotes ==
    {Remote("connect_error", 0, 0, {}), Remote("response", 200, 0, {}),
     Remote("response", 200, 0, Granted)}

BoundaryNext ==
    \/ \E t \in TtlTenants, b \in Bots : Add(t, b, "c1")
    \/ \E t \in TtlTenants, b \in Bots : Delete(t, b)
    \/ \E t \in TtlTenants, b \in Bots : PullQuery(t, b)
    \/ \E b \in Bots : PullWriteBack(b)
    \/ \E t \in Tenants, b \in Bots : BoundaryCheck(t, b)
    \/ \E r \in BoundaryRemotes : RemoteBecomes(r)
    \/ Tick

BoundarySpec == Init /\ [][BoundaryNext]_vars

----------------------------------------------------------------------------
(* A main-version pull that hits the cache, suspended at the awaits of     *)
(* pull_from_redis and refresh_redis_ttl: get, then get_ttl, then set.     *)

(* the outcome of a pull of tenant t that was served the cached value *)
HitOutcome(t, b, value) ==
    LET code == IF OwnerOf(value) # t THEN NotFound ELSE OK
    IN [Outcome("pull", t, b, MainVersion, code,
                IF code = OK THEN value ELSE <<>>, 0)
          EXCEPT !.hit = TRUE,
                 !.msg = IF code = OK THEN ""
                         ELSE "failed to retrieve bot config"]

(* pull_from_redis: redis_client.get returns a value *)
HitGet(t, b) ==
    /\ RedisValue(cache, b) # <<>>
    /\ flight.hit[b] = NoHit
    /\ flight' = [flight EXCEPT !.hit[b] =
                     [stage |-> "got", t |-> t, val |-> RedisValue(cache, b)]]
    /\ UNCHANGED <<db, cache, last, auth, remote, lru>>

(* refresh_redis_ttl: redis_client.get_ttl; without a positive TTL the     *)
(* pull returns the value it got                                           *)
HitTtl(b) ==
    /\ flight.hit[b].stage = "got"
    /\ IF get_ttl(cache, b) > 0
       THEN /\ flight' = [flight EXCEPT !.hit[b].stage = "ttl"]
            /\ last' = last
       ELSE /\ flight' = [flight EXCEPT !.hit[b] = NoHit]
            /\ last' = HitOutcome(flight.hit[b].t, b, flight.hit[b].val)
    /\ UNCHANGED <<db, cache, auth, remote, lru>>

(* refresh_redis_ttl: set_to_redis(value, ex); the pull returns the value *)
HitSet(b) ==
    /\ flight.hit[b].stage = "ttl"
    /\ cache' = set_to_redis(cache, b, flight.hit[b].val, RedisExpire)
    /\ flight' = [flight EXCEPT !.hit[b] = NoHit]
    /\ last' = HitOutcome(flight.hit[b].t, b, flight.hit[b].val)
    /\ UNCHANGED <<db, auth, remote, lru>>

(* One tenant's bot: readers that hit the cache step by step while the     *)
(* other handlers run in between.                                          *)
RaceNext ==
    \/ \E t \in TtlTenants, b \in Bots, cfg \in Cfgs : Add(t, b, cfg)
    \/ \E t \in TtlTenants, b \in Bots, cfg \in Cfgs : Update(t, b, cfg)
    \/ \E t \in TtlTenants, b \in Bots : Delete(t, b)
    \/ \E t \in TtlTenants, b \in Bots :
          Publish(t, b, XINGCHEN, <<>>, "")
    \/ \E t \in TtlTenants, b \in Bots : Unpublish(t, b, XINGCHEN)
    \/ \E t \in TtlTenants, b \in Bots : Pull(t, b, MainVersion, FALSE)
    \/ \E t \in TtlTenants, b \in Bots : HitGet(t, b)
    \/ \E b \in Bots : HitTtl(b)
    \/ \E b \in Bots : HitSet(b)
    \/ Tick

RaceSpec == Init /\ [][RaceNext]_vars

----------------------------------------------------------------------------
(* publish and delete as transactions of several workers on the durable    *)
(* store.  A statement is one step: the query of a handler reads the       *)
(* committed rows without locking them (the code uses neither              *)
(* with_for_update nor a conditional UPDATE), and its write is applied to  *)
(* the rows as they are when it is flushed.                                *)

(* PublishService.publish: the query, and the new status computed from it *)
PublishQuery(t, b, platform) ==
    /\ flight.pub[<<b, platform>>] = NoPub
    /\ \E bot_config \in First(BotRows(db, t, b)) :
         IF bot_config = NoRec
         THEN /\ last' = Began(Raised(OnPlatform(Outcome("publish", t, b, "",
                                                         NotFound, <<>>, 1),
                                                 platform, 0),
                                      "Failed to get bot configuration"),
                               cache)
              /\ flight' = flight
         ELSE /\ flight' = [flight EXCEPT !.pub[<<b, platform>>] =
                              [row |-> bot_config, gone |-> FALSE]]
              /\ last' = last
    /\ UNCHANGED <<db, cache, auth, remote, lru>>

(* PublishService.publish: session.commit() flushes publish_status and     *)
(* publish_data of the row that was read, then _clear_cache.  The UPDATE   *)
(* of a row that is gone matches nothing and the commit raises.            *)
PublishCommit(b, platform) ==
    LET f == flight.pub[<<b, platform>>]
        bot_config == f.row
        t == bot_config.app_id
        new_status == add_platform(bot_config.publish_status, platform)
        data == build_bot_config(bot_config)
    IN /\ f # NoPub
       /\ IF f.gone
          THEN /\ flight' = [flight EXCEPT !.pub[<<b, platform>>] = NoPub]
               /\ last' = OnPlatform(Outcome("publish", t, b, "", Uncaught,
                                             <<>>, 1),
                                     platform, bot_config.publish_status)
               /\ UNCHANGED <<db, cache>>
          ELSE \E current \in MainRows(db, t, b) :
                 /\ db' = Replace(db, current,
                                  [current EXCEPT
                                     !.publish_status = new_status,
                                     !.publish_data = data])
                 /\ cache' = _clear_cache(cache, b)
                 /\ flight' = [flight EXCEPT
                                 !.pub[<<b, platform>>] = NoPub,
                                 !.ok[b] = @ \cup {platform}]
                 /\ last' = Began(OnPlatform(Outcome("publish", t, b, "", OK,
                                                     <<>>, 1),
                                             platform,
                                             bot_config.publish_status),
                                  cache)
       /\ UNCHANGED <<auth, remote, lru>>

(* BotConfigClient.delete up to and including the published check *)
DeleteGate(t, b) ==
    /\ flight.del[b] = ""
    /\ \E rec \in First(PullRows(db, t, b, MainVersion, FALSE)),
          record \in First(MainRows(db, t, b)) :
         LET value == MainValue(cache, b, rec)
             after == MainAfter(cache, b, rec)
             reads == MainReads(cache, b)
         IN /\ cache' = after
            /\ IF value = <<>> \/ OwnerOf(value) # t
               THEN /\ flight' = flight
                    /\ last' = Raised(Outcome("delete", t, b, MainVersion,
                                              NotFound, <<>>, reads),
                                      IF value = <<>>
                                      THEN "Main version not found, cannot delete"
                                      ELSE "failed to retrieve bot config")
               ELSE IF record # NoRec /\ record.publish_status > 0
               THEN /\ flight' = flight
                    /\ last' = Raised(Outcome("delete", t, b, MainVersion,
                                              Published, <<>>, reads + 1),
                                      "Cannot delete published bot. Please unpublish first.")
               ELSE /\ flight' = [flight EXCEPT !.del[b] = t]
                    /\ last' = last
    /\ UNCHANGED <<db, auth, remote, lru>>

(* BotConfigClient.delete: the bulk delete of the rows of the bot and the  *)
(* removal of the cache entry                                              *)
DeleteRows(b) ==
    LET t == flight.del[b]
    IN /\ t # ""
       /\ db' = [r \in Rows(db) \ BotRows(db, t, b) |-> db[r]]
       /\ cache' = IF RedisValue(cache, b) # <<>>
                   THEN redis_delete(RedisAfter(cache, b), b)
                   ELSE cache
       /\ flight' = [flight EXCEPT
                       !.del[b] = "",
                       !.pub = [k \in DOMAIN @ |->
                                  IF k[1] = b /\ @[k].row.app_id = t
                                  THEN [@[k] EXCEPT !.gone = TRUE]
                                  ELSE @[k]]]
       /\ last' = Outcome("delete", t, b, MainVersion, OK, <<>>, 1)
       /\ UNCHANGED <<auth, remote, lru>>

TxnPlatforms == {XINGCHEN, AIUI}

TxnNext ==
    \/ \E t \in TtlTenants, b \in Bots, cfg \in Cfgs : Add(t, b, cfg)
    \/ \E t \in TtlTenants, b \in Bots, p \in TxnPlatforms :
          PublishQuery(t, b, p)
    \/ \E b \in Bots, p \in TxnPlatforms : PublishCommit(b, p)
    \/ \E t \in TtlTenants, b \in Bots : DeleteGate(t, b)
    \/ \E b \in Bots : DeleteRows(b)

TxnSpec == Init /\ [][TxnNext]_vars

----------------------------------------------------------------------------
(* The handlers of BotConfigClient over a cache that another writer of the *)
(* shared cache fills with payloads they cannot read.                      *)

(* a payload that is not a configuration is set under the key of bot b *)
Garble(b, value, ex) ==
    /\ UNCHANGED outside
    /\ db' = db
    /\ cache' = [cache EXCEPT ![b] = [val |-> value, ttl |-> ex]]
    /\ last' = Outcome("garble", "", b, "", OK, <<>>, 0)

CorruptNext ==
    \/ \E t \in Tenants, b \in Bots, v \in Versions :
          Pull(t, b, v, FALSE)
    \/ \E t \in Tenants, b \in Bots, cfg \in Cfgs : Add(t, b, cfg)
    \/ \E t \in Tenants, b \in Bots, cfg \in Cfgs : Update(t, b, cfg)
    \/ \E t \in Tenants, b \in Bots : Delete(t, b)
    \/ \E b \in Bots, value \in {Garbled, Misshapen},
          ex \in {-1} \cup 1..RedisExpire :
          Garble(b, value, ex)
    \/ Tick

CorruptSpec == Init /\ [][CorruptNext]_vars

----------------------------------------------------------------------------
(* LRUCache of api/middleware/auth_middleware.py *)

(* The position of key in the items od, 0 if it has none *)
IndexOf(od, key) ==
    IF \E i \in 1..Len(od) : od[i][1] = key
    THEN CHOOSE i \in 1..Len(od) : od[i][1] = key
    ELSE 0

Without(od, i) == SubSeq(od, 1, i - 1) \o SubSeq(od, i + 1, Len(od))

(* a cache that leaves a touched key where it is *)
move_to_endNot(od, key) == od

(* OrderedDict.move_to_end(key) *)
move_to_end(od, key) ==
    LET i == IndexOf(od, key) IN Without(od, i) \o <<od[i]>>

(* OrderedDict.popitem(last=False) *)
popitem(od) == Tail(od)

(* the history after key was touched *)
Touch(touched, key) ==
    LET i == CHOOSE j \in 0..Len(touched) :
               IF \E n \in 1..Len(touched) : touched[n] = key
               THEN j > 0 /\ touched[j] = key ELSE j = 0
    IN (IF i = 0 THEN touched ELSE Without(touched, i)) \o <<key>>

(* LRUCache.get: the value returned, None for a key that is not cached *)
Cached(l, key) ==
    LET i == IndexOf(l._cache, key)
    IN IF i = 0 THEN None ELSE l._cache[i][2]

(* LRUCache.get: the cache afterwards *)
AfterGet(l, key) ==
    IF IndexOf(l._cache, key) = 0 THEN l
    ELSE [l EXCEPT !._cache = move_to_end(l._cache, key),
                   !.touched = Touch(@, key)]

(* a set that stores nothing *)
AfterSetDropped(l, key, value) == l

(* LRUCache.set: the cache afterwards *)
AfterSet(l, key, value) ==
    LET od == l._cache
        i == IndexOf(od, key)
        assigned == IF i = 0 THEN Append(od, <<key, value>>)
                    ELSE move_to_end([od EXCEPT ![i] = <<key, value>>], key)
    IN [l EXCEPT
          !._cache = IF i = 0 /\ Len(assigned) > MaxSize
                     THEN popitem(assigned) ELSE assigned,
          !.touched = Touch(@, key),
          !.latest = [@ EXCEPT ![key] = value]]

(* LRUCache.get *)
LRUCacheGet(key) ==
    /\ UNCHANGED <<db, cache, auth, remote, flight>>
    /\ LET o == [Outcome("lru_get", "", "", "", OK, <<>>, 0)
                    EXCEPT !.key = key]
       IN /\ lru' = AfterGet(lru, key)
          /\ last' = IF Cached(lru, key) = None THEN o
                     ELSE [o EXCEPT !.val = <<Cached(lru, key)>>]

(* LRUCache.set *)
LRUCacheSet(key, value) ==
    /\ UNCHANGED <<db, cache, auth, remote, flight>>
    /\ lru' = AfterSet(lru, key, value)
    /\ last' = [Outcome("lru_set", "", "", "", OK, <<value>>, 0)
                  EXCEPT !.key = key]

LruNext ==
    \/ \E key \in LruKeys : LRUCacheGet(key)
    \/ \E key \in LruKeys, value \in LruVals : LRUCacheSet(key, value)

LruSpec == Init /\ [][LruNext]_vars

----------------------------------------------------------------------------
(* AuthMiddleware of api/middleware/auth_middleware.py *)

(* codes of _generate_error_response in dispatch *)
MissingAuthorization == 40001
AuthenticationFailed == 40003

need_auth_paths == {"/agent/v1/chat/completions"}
Paths == need_auth_paths \cup {"/agent/v1/bot-config"}

(* The authorization header: <<>> when the request has none, else the      *)
(* scheme and the api_key before the colon of the token.                   *)
ApiKeys == {"a", "b", "c"}
Authorizations ==
    {<<>>, <<"Basic", "a">>, <<"Bearer", "">>}
    \cup {<<"Bearer", k>> : k \in ApiKeys}

(* The value of the x-consumer-username header, "" when it is not sent *)
Usernames == {"", "A"}

Requests ==
    [path : Paths, x_consumer_username : Usernames,
     authorization : Authorizations]

(* _extract_api_key: the api_key, or "" where ValueError is raised *)
_extract_api_key(authorization) ==
    IF Len(authorization) # 2 \/ authorization[1] # "Bearer" THEN ""
    ELSE authorization[2]

(* _get_app_id_from_api_key: cache_key *)
cache_key(api_key) == "agent:app:api_key:" \o api_key

CacheKeys == {cache_key(k) : k \in ApiKeys}

(* What the app_auth service does with a lookup: APP_AUTH_HOST is not      *)
(* configured, the connection fails or times out, or it answers with an    *)
(* HTTP status and a body that is not JSON or carries code and data.appid  *)
(* (None for a body without appid).                                        *)
Lookup(kind, status, code, appid) ==
    [kind |-> kind, status |-> status, code |-> code, appid |-> appid]

AppIds == {1, 2}
Lookups ==
    {Lookup(k, 0, 0, None) : k \in {"unconfigured", "client_error", "timeout"}}
    \cup {Lookup("bad_json", 200, 0, None), Lookup("json", 500, 0, 1),
          Lookup("json", 200, 1, 1), Lookup("json", 200, 0, None)}
    \cup {Lookup("json", 200, 0, a) : a \in AppIds}

(* _build_app_auth_url returns a URL: the service is sent a request *)
Queried(answer) == answer.kind # "unconfigured"

(* _query_app_auth_service and _parse_auth_response return an app_id *)
Resolved(answer) ==
    /\ answer.kind = "json"
    /\ answer.status = 200
    /\ answer.code = 0
    /\ answer.appid # None

(* AuthMiddleware.dispatch for one request; answer is what the app_auth    *)
(* service does if it is asked.  code OK: call_next(request) ran, with     *)
(* val the x-consumer-username injected (<<>> for none).  The outcome      *)
(* records the request, and the answer where the cache missed.             *)
Dispatch(request, answer) ==
    LET api_key == _extract_api_key(request.authorization)
        key == cache_key(api_key)
        cached_app_id == Cached(lru, key)
        o(code, calls) ==
          [Outcome("dispatch", request.x_consumer_username, "", "", code,
                   <<>>, 0)
             EXCEPT !.calls = calls, !.key = api_key, !.request = request]
    IN /\ UNCHANGED <<db, cache, auth, remote, flight>>
       /\ IF request.path \notin need_auth_paths
             \/ request.x_consumer_username # ""
          THEN /\ lru' = lru
               /\ last' = o(OK, 0)
          ELSE IF request.authorization = <<>>
          THEN /\ lru' = lru
               /\ last' = Raised(o(MissingAuthorization, 0),
                                 "authorization header is required")
          ELSE IF api_key = ""
          THEN /\ lru' = lru
               /\ last' = Raised(o(AuthenticationFailed, 0),
                                 "Failed to authenticate with api_key")
          ELSE IF cached_app_id # None
          THEN /\ lru' = AfterGet(lru, key)
               /\ last' = [o(OK, 0) EXCEPT !.val = <<cached_app_id>>,
                                           !.hit = TRUE]
          ELSE IF Queried(answer) /\ Resolved(answer)
          THEN /\ lru' = AfterSet(lru, key, answer.appid)
               /\ last' = [o(OK, 1) EXCEPT !.val = <<answer.appid>>,
                                           !.answer = answer]
          ELSE /\ lru' = lru
               /\ last' = [Raised(o(AuthenticationFailed,
                                    IF Queried(answer) THEN 1 ELSE 0),
                                  "Failed to authenticate with api_key")
                             EXCEPT !.answer = answer]

DispatchInit ==
    /\ db = EmptyBag
    /\ cache = [b \in Bots |-> NoEntry]
    /\ last = Outcome("init", "", "", "", OK, <<>>, 0)
    /\ auth = [k \in Tenants \X Bots |-> NoDecision]
    /\ remote = Unconfigured
    /\ lru = [NewLRUCache EXCEPT !.latest = [k \in CacheKeys |-> None]]
    /\ flight = NoFlight

DispatchNext ==
    \E request \in Requests, answer \in Lookups : Dispatch(request, answer)

DispatchSpec == DispatchInit /\ [][DispatchNext]_vars

----------------------------------------------------------------------------
(* Properties *)

(* The main rows of bot b, whichever tenant owns them *)
MainRowsOfBot(d, b) ==
    {r \in Rows(d) : r.bot_id = b /\ r.version = MainVersion}

(* C1: a pull of the main version without cross-tenant access succeeds,   *)
(* returning a stored main configuration of (t, b), if and only if the     *)
(* durable store holds a main row of bot b owned by t; otherwise it fails  *)
(* with NotFound (40001).                                                  *)
C1_PullIffOwnedMainRow ==
    [][(last'.op = "pull" /\ last'.v = MainVersion /\ ~last'.cross) =>
         /\ (last'.code = OK) <=> (MainRows(db, last'.t, last'.b) # {})
         /\ last'.code = OK =>
              last'.val \in {build_bot_config(r) :
                               r \in MainRows(db, last'.t, last'.b)}
         /\ last'.code # OK => last'.code = NotFound]_vars

(* C2: a main-version pull that directly follows a main-version pull of   *)
(* the same bot that missed the cache and succeeded from the durable store *)
(* (no write and no expiry in between) issues no durable-store statement.  *)
C2_NextPullServedFromCache ==
    (last.op = "pull" /\ last.after_miss) => last.reads = 0

C2_Witness ==
    /\ last.op = "pull" /\ last.after_miss
    /\ last.reads = 0 /\ last.code = OK
    /\ cache[last.b] = [val |-> last.val, ttl |-> RedisExpire]

(* C3: add fails with Conflict (40053) and leaves the durable store        *)
(* unchanged whenever a main row exists for the bot_id, whichever tenant   *)
(* owns it; otherwise it inserts exactly one main row (t, b, "-1").        *)
C3_AddConflictOnAnyMainRow ==
    [][last'.op = "add" =>
         IF MainRowsOfBot(db, last'.b) # {}
         THEN last'.code = Conflict /\ db' = db
         ELSE /\ last'.code = OK
              /\ \E r \in MainRows(db', last'.t, last'.b) :
                    db' = Insert(db, r)]_vars

(* C4: the durable store never holds two rows with the same                *)
(* (tenant_id, bot_id, version): never two main rows of one tenant's bot,  *)
(* never two snapshots with the same label.                                *)
C4_OneRowPerVersion ==
    \A r \in Rows(db) :
       Count(db, VersionRows(db, r.app_id, r.bot_id, r.version)) <= 1

(* The rows that a step removed from the durable store *)
Removed(d, e) ==
    {r \in Rows(d) : IF r \in Rows(e) THEN e[r] < d[r] ELSE TRUE}

(* C5: delete(t, b) fails with 40063 and removes no row whenever the main  *)
(* row of (t, b) has a non-zero publish_status; when t owns a main row of  *)
(* b and the status is 0, delete succeeds.                                 *)
C5_DeleteGating ==
    [][last'.op = "delete" =>
         /\ (\E r \in MainRows(db, last'.t, last'.b) : r.publish_status # 0)
              => (last'.code = Published /\ db' = db)
         /\ (/\ MainRows(db, last'.t, last'.b) # {}
             /\ \A r \in MainRows(db, last'.t, last'.b) : r.publish_status = 0)
              => last'.code = OK]_vars

(* C6: every row that a delete removes had publish_status 0 *)
C6_NoPublishedRowDeleted ==
    [][last'.op = "delete" =>
         \A r \in Removed(db, db') : r.publish_status = 0]_vars

(* C7: a successful delete(t, b) leaves no row of bot b in the durable     *)
(* store and no cache entry for b.                                         *)
C7_DeleteRemovesAll ==
    [][(last'.op = "delete" /\ last'.code = OK) =>
         /\ \A r \in Rows(db') : r.bot_id # last'.b
         /\ cache'[last'.b] = NoEntry]_vars

(* C8: an update that starts with no cache entry for b ends with none *)
C8_UpdateCreatesNoEntry ==
    [][(last'.op = "update" /\ cache[last'.b] = NoEntry) =>
         cache'[last'.b] = NoEntry]_vars

(* C9: after a successful update the entry of b holds the new              *)
(* configuration, without expiry if it had none, with the configured       *)
(* expiry if it had a positive TTL.                                        *)
C9_UpdateKeepsExpiryKind ==
    [][(last'.op = "update" /\ last'.code = OK) =>
         /\ cache[last'.b].ttl = -1 =>
              cache'[last'.b] = [val |-> last'.val, ttl |-> -1]
         /\ cache[last'.b].ttl > 0 =>
              cache'[last'.b] = [val |-> last'.val, ttl |-> RedisExpire]]_vars

RowsOfBot(d, b) == {r \in Rows(d) : r.bot_id = b}

(* The error (code and message) that handler op raises for a bot that has  *)
(* no row at all                                                           *)
AbsentError(op) ==
    IF op = "update"
    THEN <<NotFound, "Main version not found, cannot update">>
    ELSE IF op = "delete"
    THEN <<NotFound, "Main version not found, cannot delete">>
    ELSE IF op = "verify_bot_permission"
    THEN <<NotFound, "Bot not found or access denied: "
                       \o "failed to retrieve bot config">>
    ELSE <<NotFound, "failed to retrieve bot config">>

(* The handlers that C11 names, run with tenant t's own client *)
TenantScoped(o) ==
    \/ o.op \in {"update", "delete", "verify_bot_permission"}
    \/ o.op = "pull" /\ ~o.cross

(* A handler called for a bot without any row raises AbsentError, in every *)
(* cache state.                                                            *)
AbsentErrorRaised ==
    [][(TenantScoped(last') /\ RowsOfBot(db, last'.b) = {}) =>
         <<last'.code, last'.msg>> = AbsentError(last'.op)]_vars

(* C11: pull without cross-tenant access, update, delete and the boundary  *)
(* permission check, run by a tenant that owns no row of bot b and holds   *)
(* no grant while b exists under another tenant, fail with the very error  *)
(* (code and message) they raise when b has no row at all.                 *)
C11_ErrorHidesTenant ==
    [][(/\ TenantScoped(last')
        /\ last'.code # OK
        /\ BotRows(db, last'.t, last'.b) = {}
        /\ MainRowsOfBot(db, last'.b) # {}) =>
         <<last'.code, last'.msg>> = AbsentError(last'.op)]_vars

(* The rows of version v of any tenant and bot, as a bag *)
LabelBag(d, v) == [r \in {x \in Rows(d) : x.version = v} |-> d[r]]

(* r2 is the row r but for its publish_status and publish_data *)
SameConfig(r, r2) ==
    r2 = [r EXCEPT !.publish_status = r2.publish_status,
                   !.publish_data = r2.publish_data]

(* status s2 is status s1 with bit p set, every other platform bit alike *)
BitSet(s1, s2, p) ==
    \A q \in AllPlatforms :
       is_published(s2, q) <=> (q = p \/ is_published(s1, q))

(* status s2 is status s1 with bit p cleared, every other bit alike *)
BitCleared(s1, s2, p) ==
    \A q \in AllPlatforms :
       is_published(s2, q) <=> (q # p /\ is_published(s1, q))

(* C12: a successful publish(b, P) sets the publish_status of the main     *)
(* record of (t, b) to (old status OR P): bit P is set afterwards and      *)
(* every other platform bit is as before.                                  *)
C12_PublishSetsBit ==
    [][(last'.op = "publish" /\ last'.code = OK) =>
         \E r \in MainRows(db, last'.t, last'.b),
            r2 \in MainRows(db', last'.t, last'.b) :
           /\ SameConfig(r, r2)
           /\ r2.publish_status = add_platform(r.publish_status, last'.p)
           /\ BitSet(r.publish_status, r2.publish_status, last'.p)]_vars

(* C14: unpublish(b, P) on a bot with a main record fails with 40063 and   *)
(* changes neither the durable store nor the cache when bit P is not set   *)
(* in the main record's publish_status; otherwise it succeeds, the main    *)
(* record's status becomes (old AND NOT P), and publish_data is cleared    *)
(* exactly when the new status is 0.                                       *)
C14_UnpublishClearsBit ==
    [][(last'.op = "unpublish" /\ MainRows(db, last'.t, last'.b) # {}) =>
         IF \A r \in MainRows(db, last'.t, last'.b) :
               ~is_published(r.publish_status, last'.p)
         THEN last'.code = Published /\ db' = db /\ cache' = cache
         ELSE /\ last'.code = OK
              /\ \E r \in MainRows(db, last'.t, last'.b) :
                   LET new_status == remove_platform(r.publish_status, last'.p)
                       r2 == [r EXCEPT !.publish_status = new_status,
                                       !.publish_data =
                                          IF new_status = 0 THEN <<>>
                                          ELSE r.publish_data]
                   IN /\ is_published(r.publish_status, last'.p)
                      /\ BitCleared(r.publish_status, new_status, last'.p)
                      /\ db' = Replace(db, r, r2)]_vars

(* The rows of d2 that d1 does not hold (or holds fewer copies of) *)
Added(d1, d2) == Removed(d2, d1)

(* C15: after a successful publish the only rows written are main rows     *)
(* (version "-1") and the snapshot of the label the publish names; no      *)
(* snapshot row loses its label and no row is newly pinned to "-1".        *)
C15_PublishActsOnMain ==
    [][(last'.op = "publish" /\ last'.code = OK) =>
         /\ \A r \in Added(db, db') :
               r.version = MainVersion \/ r.version = last'.v
         /\ \A v \in Labels \cup PubLabels :
               BagCardinality(LabelBag(db', v)) >= BagCardinality(LabelBag(db, v))
         /\ BagCardinality(LabelBag(db', MainVersion)) =
               BagCardinality(LabelBag(db, MainVersion))]_vars

(* C16: check_published fails with NotFound (40001) when the bot has no    *)
(* record; otherwise check_published(b) answers whether the main record's  *)
(* publish_status is non-zero and check_published(b, P) whether bit P is   *)
(* set in it.                                                              *)
C16_CheckReadsMain ==
    [][last'.op = "check_published" =>
         IF BotRows(db, last'.t, last'.b) = {}
         THEN last'.code = NotFound
         ELSE /\ last'.code = OK
              /\ \E r \in MainRows(db, last'.t, last'.b) :
                   last'.ans = IF last'.p = None THEN r.publish_status # 0
                               ELSE is_published(r.publish_status, last'.p)]_vars

(* C17: a successful publish(b, P, version_label = L) leaves a record      *)
(* (t, b, L) that equals the main record after its bit was set, but for    *)
(* the version: one new record if no record (t, b, L) existed, else an     *)
(* existing record (t, b, L) overwritten in place and no new record.       *)
C17_SnapshotCopiesMain ==
    [][(last'.op = "publish" /\ last'.code = OK /\ last'.v # "") =>
         \E m \in MainRows(db, last'.t, last'.b),
            m2 \in MainRows(db', last'.t, last'.b) :
           LET snapshot == [m2 EXCEPT !.version = last'.v]
               d1 == Replace(db, m, m2)
               existing == VersionRows(db, last'.t, last'.b, last'.v)
           IN /\ SameConfig(m, m2)
              /\ m2.publish_status = add_platform(m.publish_status, last'.p)
              /\ IF existing = {}
                 THEN db' = Insert(d1, snapshot)
                 ELSE \E e \in existing : db' = Replace(d1, e, snapshot)]_vars

(* C18: the snapshot rows of label L change only in a publish that names   *)
(* L: add, update, unpublish, pull, check_published and publish with       *)
(* another label or none leave them as they are.                           *)
C18_SnapshotFrame ==
    [][\A v \in Labels \cup PubLabels :
         (/\ last'.op \in {"add", "update", "unpublish", "pull", "publish",
                           "check_published", "verify_bot_permission"}
          /\ ~(last'.op = "publish" /\ last'.v = v)) =>
           LabelBag(db', v) = LabelBag(db, v)]_vars

(* An unpublish(b, P) that directly follows a successful publish(b, P) of  *)
(* a bot that has one record only                                          *)
RoundTrip ==
    /\ last.op = "unpublish" /\ last.prior # -1
    /\ Count(db, BotRows(db, last.t, last.b)) = 1

(* The round trip succeeded and left publish_status s *)
RoundTripLeaves(s) ==
    /\ last.code = OK
    /\ \A r \in BotRows(db, last.t, last.b) :
          r.version = MainVersion /\ r.publish_status = s

C19_CacheInvalidated ==
    (last.op \in {"publish", "unpublish"} /\ last.code = OK) =>
       cache[last.b] = NoEntry

C19_Witness ==
    /\ last.op = "publish" /\ last.code = OK /\ last.hit
    /\ cache[last.b] = NoEntry

(* C20: every value newly written to the cache key of bot b is the         *)
(* configuration of a main row (version "-1") of b, and a pull of a        *)
(* snapshot version leaves the cache as it was and answers from the        *)
(* durable store alone.                                                    *)
C20_OnlyMainCached ==
    [][/\ \A b \in Bots :
            (cache'[b].val # <<>> /\ cache'[b].val # cache[b].val) =>
               \E r \in MainRowsOfBot(db', b) :
                  cache'[b].val = build_bot_config(r)
       /\ (last'.op = "pull" /\ last'.v # MainVersion) =>
            /\ cache' = cache
            /\ last'.reads = 1
            /\ IF PullRows(db, last'.t, last'.b, last'.v, last'.cross) = {}
               THEN last'.code = NotFound
               ELSE last'.val \in
                      {build_bot_config(r) :
                         r \in PullRows(db, last'.t, last'.b, last'.v,
                                        last'.cross)}]_vars

C20_Witness ==
    /\ last.op = "pull" /\ last.v # MainVersion /\ last.code = OK
    /\ last.hit
    /\ cache[last.b].val # last.val

----------------------------------------------------------------------------
(* The key cache of the middleware (LruSpec) *)

Min(a, b) == IF a < b THEN a ELSE b

(* The items a classic LRU of capacity MaxSize holds after the history:   *)
(* the MaxSize keys touched last, least recent first, with their latest    *)
(* values                                                                  *)
ClassicLru(touched, latest) ==
    LET n == Len(touched)
        m == Min(n, MaxSize)
    IN [i \in 1..m |-> <<touched[n - m + i], latest[touched[n - m + i]]>>]

(* C30: after any sequence of get and set the cache holds at most MaxSize  *)
(* entries, namely the MaxSize distinct keys most recently touched by a    *)
(* set or a hitting get, each with its latest value (so a set on a key     *)
(* that is present evicts nothing); a get answers the latest value of a    *)
(* key that is held and absent otherwise; with capacity 2, after           *)
(* set(a,1); set(b,2); set(c,3) the cache holds b with 2 and c with 3 and  *)
(* not a.                                                                  *)
C30_ClassicLru ==
    /\ Len(lru._cache) <= MaxSize
    /\ lru._cache = ClassicLru(lru.touched, lru.latest)
    /\ last.op = "lru_get" =>
          last.val = IF IndexOf(lru._cache, last.key) = 0 THEN <<>>
                     ELSE <<lru.latest[last.key]>>
    /\ (/\ MaxSize = 2
        /\ lru.touched = <<"a", "b", "c">>
        /\ lru.latest = [k \in LruKeys |->
                           IF k = "a" THEN 1 ELSE IF k = "b" THEN 2
                           ELSE IF k = "c" THEN 3 ELSE None])
         => lru._cache = << <<"b", 2>>, <<"c", 3>> >>

(* the third set of the example has just run *)
C30_Witness ==
    /\ lru.touched = <<"a", "b", "c">>
    /\ lru.latest["a"] = 1 /\ lru.latest["b"] = 2 /\ lru.latest["c"] = 3
    /\ last.op = "lru_set" /\ last.key = "c"
    /\ IndexOf(lru._cache, "a") = 0

----------------------------------------------------------------------------
(* The decision cache of AuthService (AuthSpec) *)

DecisionKeys == Tenants \X Bots

(* the step is a check_permission for key k *)
CheckStep(k) ==
    /\ last'.op = "check_permission"
    /\ <<last'.t, last'.b>> = k

(* the step is a bind for key k *)
BindStep(k) ==
    /\ last'.op = "bind"
    /\ <<last'.t, last'.b>> = k

(* the authorization service answers the request of key k, and with an    *)
(* enabled grant                                                          *)
Answers(r) == r.kind = "response" /\ r.status = 200
Grants(r, k) ==
    /\ r.code = 0
    /\ \E perm \in r.data :
         /\ perm.app_id = k[1] /\ perm.ability_id = k[2]
         /\ perm.type = "agent" /\ perm.status = 1

(* C22: while a sentinel is cached for (tenant, bot), check returns        *)
(* Allowed for ALLOW and fails with 40300 for DENY, sends no request to    *)
(* the authorization service and leaves the decision cache as it is.       *)
C22_SentinelDecides ==
    [][\A k \in DecisionKeys :
         (CheckStep(k) /\ auth[k].val # "") =>
           /\ auth' = auth
           /\ last'.calls = 0
           /\ auth[k].val = "NORMAL" => last'.code = OK
           /\ auth[k].val = "DENIED" => last'.code = Forbidden]_vars

(* a check was answered from a cached DENY *)
C22_Witness ==
    /\ last.op = "check_permission" /\ last.was = "DENIED"
    /\ last.code = Forbidden /\ last.calls = 0
    /\ auth[<<last.t, last.b>>].val = "DENIED"

(* C23: on a miss, check sends one request to the authorization service    *)
(* (none when no endpoint is configured, which is a failure); when the     *)
(* service answers, the sentinel of the answer is written under the key    *)
(* with the configured TTL and check returns Allowed for a grant and fails *)
(* with 40300 otherwise; a miss fails with 40300 only on such an answer.   *)
C23_MissAsksOnceAndCaches ==
    [][\A k \in DecisionKeys :
         (CheckStep(k) /\ auth[k].val = "") =>
           /\ last'.calls = IF remote.kind = "unconfigured" THEN 0 ELSE 1
           /\ Answers(remote) =>
                 /\ auth' = [auth EXCEPT ![k] =
                               [val |-> IF Grants(remote, k) THEN "NORMAL"
                                        ELSE "DENIED",
                                ttl |-> RedisExpire]]
                 /\ last'.code = IF Grants(remote, k) THEN OK ELSE Forbidden
           /\ last'.code = Forbidden =>
                 Answers(remote) /\ ~Grants(remote, k)]_vars

(* a miss was answered without a grant and DENY is cached with full TTL *)
C23_Witness ==
    /\ last.op = "check_permission" /\ last.was = ""
    /\ last.code = Forbidden /\ last.calls = 1
    /\ auth[<<last.t, last.b>>] = [val |-> "DENIED", ttl |-> RedisExpire]

(* C24: a check that misses while the authorization service fails (no      *)
(* endpoint, HTTP error, non-200 status, connection failure, timeout)      *)
(* raises an error of the client after at most one request and leaves the  *)
(* decision cache unchanged.                                               *)
C24_FailureNotCached ==
    [][\A k \in DecisionKeys :
         (CheckStep(k) /\ auth[k].val = "" /\ ~Answers(remote)) =>
           /\ auth' = auth
           /\ last'.code \in {50001, 50002, 50003, 50004}
           /\ last'.calls <= 1]_vars

(* a check failed with a connection error and nothing is cached *)
C24_Witness ==
    /\ last.op = "check_permission" /\ last.code = 50002
    /\ last.calls = 1
    /\ auth[<<last.t, last.b>>] = NoDecision

(* C28: a bind that succeeds leaves ALLOW with the configured TTL under    *)
(* the key; an ALLOW stays until it expires; and a check that finds ALLOW  *)
(* returns Allowed without a request to the authorization service.         *)
C28_BindCachesAllow ==
    [][\A k \in DecisionKeys :
         /\ (BindStep(k) /\ last'.code = OK) =>
               auth'[k] = [val |-> "NORMAL", ttl |-> RedisExpire]
         /\ auth[k].val = "NORMAL" =>
               \/ auth'[k].val = "NORMAL" /\ auth'[k].ttl >= auth[k].ttl - 1
               \/ auth[k].ttl = 1 /\ auth'[k] = NoDecision
         /\ (CheckStep(k) /\ auth[k].val = "NORMAL") =>
               last'.code = OK /\ last'.calls = 0]_vars

(* a bind has just replaced a cached DENY by ALLOW *)
C28_Witness ==
    /\ last.op = "bind" /\ last.code = OK /\ last.was = "DENIED"
    /\ auth[<<last.t, last.b>>] = [val |-> "NORMAL", ttl |-> RedisExpire]

----------------------------------------------------------------------------
(* The client of the authorization service (ClientSpec) *)

ClientOps == {"verify_permission", "get_permissions", "bind_permission"}
Non200(r) == r.kind = "response" /\ r.status # 200

C26_GrantIffEnabledMatch ==
    last.op = "verify_permission" =>
      /\ (last.code = OK /\ last.granted) <=>
           (Answers(remote) /\ Grants(remote, <<last.t, last.b>>))
      /\ Answers(remote) => last.code = OK

(* the only matching entry of the answer is disabled: false, no error *)
C26_Witness ==
    /\ last.op = "verify_permission"
    /\ Answers(remote) /\ remote.code = 0
    /\ \E perm \in remote.data :
         /\ perm.app_id = last.t /\ perm.ability_id = last.b
         /\ perm.type = "agent" /\ perm.status = 0
    /\ Cardinality(remote.data) = 2
    /\ last.code = OK /\ ~last.granted

----------------------------------------------------------------------------
(* bind of AuthService (AuthSpec) *)

(* the authorization service accepts a bind request *)
Binds(r) == Answers(r) /\ r.code = 0

(* C27: a bind of a bot that has no main record fails with 40001, a bind   *)
(* of a bot whose main record has publish_status 0 fails with 40060, both  *)
(* without a request to the authorization service; a bind whose request    *)
(* the service does not accept fails; every failed bind leaves the         *)
(* decision cache unchanged.                                               *)
C27_BindFailsClosed ==
    [][\A k \in DecisionKeys :
         BindStep(k) =>
           /\ MainRowsOfBot(db, k[2]) = {} =>
                 last'.code = NotFound /\ last'.calls = 0
           /\ (\E r \in MainRowsOfBot(db, k[2]) : r.publish_status = 0) =>
                 last'.code = NotPublished /\ last'.calls = 0
           /\ ~Binds(remote) => last'.code # OK
           /\ last'.code # OK => auth' = auth]_vars

(* The bot has one main record and no other row claims to be it *)
OneMainRow(d, b) ==
    /\ Cardinality(MainRowsOfBot(d, b)) = 1
    /\ \A r \in MainRowsOfBot(d, b) : d[r] = 1

(* C27 for bots with one main record: holds *)
BindFailsClosedWhenUnique ==
    [][\A k \in DecisionKeys :
         (BindStep(k) /\ (MainRowsOfBot(db, k[2]) = {} \/ OneMainRow(db, k[2])))
         =>
           /\ MainRowsOfBot(db, k[2]) = {} =>
                 last'.code = NotFound /\ last'.calls = 0
           /\ (\E r \in MainRowsOfBot(db, k[2]) : r.publish_status = 0) =>
                 last'.code = NotPublished /\ last'.calls = 0
           /\ ~Binds(remote) => last'.code # OK
           /\ last'.code # OK => auth' = auth]_vars

----------------------------------------------------------------------------
(* The boundary permission check (Spec) *)

(* the step is a boundary check of tenant t for bot b *)
BoundaryStep(t, b) ==
    /\ last'.op = "verify_bot_permission"
    /\ last'.t = t /\ last'.b = b

(* C29: a boundary check by a tenant that is the recorded owner of the     *)
(* bot's main version grants access and sends no request to the            *)
(* authorization service, whether the configuration came from the cache    *)
(* or from the durable store.                                              *)
C29_OwnerFastPath ==
    [][\A t \in Tenants, b \in Bots :
         (BoundaryStep(t, b) /\
          \E r \in MainRowsOfBot(db, b) : r.app_id = t) =>
           last'.code = OK /\ last'.calls = 0]_vars

(* C29 for bots with one main record: holds *)
OwnerFastPathWhenUnique ==
    [][\A t \in Tenants, b \in Bots :
         (BoundaryStep(t, b) /\ OneMainRow(db, b) /\
          \E r \in MainRowsOfBot(db, b) : r.app_id = t) =>
           last'.code = OK /\ last'.calls = 0]_vars

----------------------------------------------------------------------------
(* Staleness of the configuration cache (TtlSpec) *)

(* the cache holds for b a configuration that no main record of b has *)
Stale(b) ==
    /\ RedisValue(cache, b) # <<>>
    /\ \A r \in MainRowsOfBot(db, b) :
         build_bot_config(r) # RedisValue(cache, b)

(* C21: a stale cache entry of a bot, also one that a pull in flight wrote *)
(* after an update or delete completed, is eventually gone, whatever pulls *)
(* are issued.                                                             *)
C21_StaleEntryExpires == \A b \in Bots : Stale(b) ~> ~Stale(b)

----------------------------------------------------------------------------
(* The lifetime of a cached decision (AuthSpec) *)

(* C31: a check that finds a sentinel leaves its TTL as it is; the TTL of  *)
(* an entry never exceeds the configured one, is raised only by a bind or  *)
(* a missing check that sent a request to the authorization service, and   *)
(* every tick of the clock lowers it by one and removes the entry at the   *)
(* end, so no sentinel outlives the configured TTL of its write; a check   *)
(* that finds no entry asks the authorization service again.               *)
C31_DecisionExpires ==
    [][\A k \in DecisionKeys :
         /\ auth[k].ttl <= RedisExpire
         /\ (CheckStep(k) /\ auth[k].val # "") => auth'[k] = auth[k]
         /\ auth'[k].ttl > auth[k].ttl =>
               /\ auth'[k].ttl = RedisExpire
               /\ last'.calls = 1
               /\ BindStep(k) \/ (CheckStep(k) /\ auth[k].val = "")
         /\ last'.op = "tick" =>
               auth'[k] = IF auth[k].ttl > 1
                          THEN [auth[k] EXCEPT !.ttl = auth[k].ttl - 1]
                          ELSE NoDecision
         /\ (CheckStep(k) /\ auth[k].val = "" /\
             remote.kind # "unconfigured") =>
               last'.calls = 1]_vars

(* a check was answered from a sentinel whose TTL has run down to 1 *)
C31_Witness ==
    /\ last.op = "check_permission" /\ last.was # ""
    /\ last.calls = 0
    /\ auth[<<last.t, last.b>>].ttl = 1
    /\ RedisExpire > 1

----------------------------------------------------------------------------
(* Errors of the client seen through AuthService (AuthSpec) *)

(* C32: when the client of the authorization service raises a domain       *)
(* error, bind and check_permission surface that error with its code.      *)
C32_ErrorCodeKept ==
    [][\A k \in DecisionKeys :
         /\ (BindStep(k) /\ last'.s > 0 /\
             bind_permission(k[1], k[2], remote).code # OK) =>
               last'.code = bind_permission(k[1], k[2], remote).code
         /\ (CheckStep(k) /\ auth[k].val = "" /\
             verify_permission(k[1], AgentType, k[2], remote).code # OK) =>
               last'.code =
                 verify_permission(k[1], AgentType, k[2], remote).code]_vars

(* the part of C32 about check_permission: holds *)
CheckKeepsErrorCode ==
    [][\A k \in DecisionKeys :
         (CheckStep(k) /\ auth[k].val = "" /\
          verify_permission(k[1], AgentType, k[2], remote).code # OK) =>
            last'.code =
              verify_permission(k[1], AgentType, k[2], remote).code]_vars

----------------------------------------------------------------------------
(* Sliding expiration of the configuration cache (Spec) *)

(* the step is a pull of the main version of bot b *)
MainPullStep(b) ==
    /\ last'.op = "pull"
    /\ last'.v = MainVersion /\ last'.b = b

(* C33: a main-version pull that finds an entry with a positive TTL sets   *)
(* the TTL to the configured expiry; one that finds an entry without       *)
(* expiry leaves it without expiry; neither changes the cached value nor   *)
(* reads the durable store; a pull that finds no entry (none was written   *)
(* or it expired) queries the durable store.                               *)
C33_SlidingExpiration ==
    [][\A b \in Bots :
         MainPullStep(b) =>
           /\ cache[b].ttl > 0 =>
                 /\ cache'[b] = [val |-> cache[b].val, ttl |-> RedisExpire]
                 /\ last'.reads = 0
           /\ cache[b].ttl = -1 =>
                 /\ cache'[b] = cache[b]
                 /\ last'.reads = 0
           /\ cache[b] = NoEntry => last'.reads = 1]_vars

(* a pull was served by an entry with a TTL, which is now the full one *)
C33_Witness ==
    /\ last.op = "pull" /\ last.v = MainVersion
    /\ last.hit /\ last.reads = 0
    /\ cache[last.b].ttl = RedisExpire
    /\ cache[last.b].val # <<>>

----------------------------------------------------------------------------
(* The TTL refresh of a reader against concurrent writers (RaceSpec) *)

(* the step is the set of the TTL refresh of a reader of bot b *)
RefreshSetStep(b) ==
    /\ flight.hit[b].stage = "ttl"
    /\ flight'.hit[b].stage = ""

(* C34: the set of a reader's TTL refresh writes the value that is in the  *)
(* cache at that moment: it does not put the value the reader fetched in   *)
(* the place of a value written since, and it does not create an entry     *)
(* where the one the reader saw has been removed.                          *)
C34_RefreshKeepsNewer ==
    [][\A b \in Bots :
         RefreshSetStep(b) =>
           /\ cache[b] # NoEntry => cache'[b].val = cache[b].val
           /\ cache[b] = NoEntry => cache'[b] = NoEntry]_vars

(* no handler is suspended at an await or inside its transaction *)
Idle ==
    /\ flight.pull = NoFlight.pull
    /\ flight.hit = NoFlight.hit
    /\ flight.pub = NoFlight.pub
    /\ flight.del = NoFlight.del
    /\ flight.chk = NoFlight.chk

(* C35: whenever no operation is in flight, an entry of the configuration  *)
(* cache for bot b is the configuration of a non-deleted main record of b  *)
(* in the durable store, with the same owner tenant.                       *)
C35_CacheMirrorsStore ==
    \A b \in Bots :
      (Idle /\ RedisValue(cache, b) # <<>>) =>
        \E r \in MainRowsOfBot(db, b) :
          /\ r.app_id = OwnerOf(RedisValue(cache, b))
          /\ build_bot_config(r) = RedisValue(cache, b)

----------------------------------------------------------------------------
(* Concurrent publishes and deletes on the durable store (TxnSpec) *)

(* C36: once no operation is in flight, the main record of a bot carries   *)
(* the bit of every platform for which a publish returned success (no      *)
(* unpublish runs): no publish is lost to a concurrent publish, and the    *)
(* bot of a successful publish is not deleted.                             *)
C36_NoLostPublish ==
    \A b \in Bots :
      Idle =>
        \A p \in flight.ok[b] :
          \E r \in MainRowsOfBot(db, b) : is_published(r.publish_status, p)

----------------------------------------------------------------------------
(* A check in flight against a bind (CheckSpec) *)

(* C37: a check that missed the cache and got its answer before a bind of  *)
(* the same key succeeded does not leave the DENY sentinel when it         *)
(* finishes: after the bind the entry is ALLOW or absent.                  *)
C37_BindOutlastsCheck ==
    [][\A k \in DecisionKeys :
         (flight.chk[k].bound /\ flight'.chk[k] = NoCheck) =>
           auth'[k].val # "DENIED"]_vars

----------------------------------------------------------------------------
(* The boundary check with its authorization service (BoundarySpec) *)

(* the boundary check of t for b grants access only on a main record of b  *)
(* that t owns or on an enabled grant returned in this check *)
OwnerOrGrant(t, b) ==
    (BoundaryStep(t, b) /\ last'.code = OK) =>
      /\ MainRowsOfBot(db, b) # {}
      /\ \/ \E r \in MainRowsOfBot(db, b) : r.app_id = t
         \/ /\ last'.calls = 1 /\ last'.granted
            /\ Answers(remote) /\ Grants(remote, <<t, b>>)

(* C38: the boundary check returns success for (tenant, bot) only if the   *)
(* bot's main record exists and the tenant is its owner or the             *)
(* authorization service returned a matching enabled grant in that check;  *)
(* a bot that cannot be retrieved yields an error.                         *)
C38_AccessOnlyOwnerOrGrant ==
    [][\A t \in Tenants, b \in Bots : OwnerOrGrant(t, b)]_vars

(* C38 for checks that find the cache empty or in step with the store:     *)
(* holds *)
OwnerOrGrantWhenFresh ==
    [][\A t \in Tenants, b \in Bots : ~Stale(b) => OwnerOrGrant(t, b)]_vars

----------------------------------------------------------------------------
(* The middleware and its key cache (DispatchSpec) *)

(* the request asks for an authenticated path and asserts no identity *)
Unasserted(request) ==
    request.path \in need_auth_paths /\ request.x_consumer_username = ""

(* the request carries a bearer credential with an api_key *)
WellFormed(request) ==
    request.authorization # <<>> /\ _extract_api_key(request.authorization) # ""

(* the cache holds the key of the request's credential *)
Known(request) ==
    Cached(lru, cache_key(_extract_api_key(request.authorization))) # None

(* the step is a request through the middleware on an authenticated path *)
DispatchStep ==
    last'.op = "dispatch" /\ last'.request.path \in need_auth_paths

(* C39 as stated: on an authenticated path the app_auth service is asked   *)
(* if and only if the request asserts no identity and its credential is    *)
(* not in the cache.                                                       *)
C39_AskedIffUnknown ==
    [][DispatchStep =>
         (last'.calls = 1 <=>
            (Unasserted(last'.request) /\ ~Known(last'.request)))]_vars

(* C39: on an authenticated path the app_auth service is asked if and only *)
(* if the request asserts no identity, carries a bearer credential with an *)
(* api_key that is not in the cache, and the service is configured; an     *)
(* app_id it returns is cached under the key and injected, a cached app_id *)
(* is injected without asking, and a failed lookup leaves the cache as it  *)
(* is and ends the request before the downstream handler.  An entry goes   *)
(* only by eviction of the oldest one from a full cache.                   *)
C39_AskedIffUnknownCredential ==
    [][DispatchStep =>
         LET request == last'.request
             answer == last'.answer
             key == cache_key(_extract_api_key(request.authorization))
             asked == /\ Unasserted(request) /\ WellFormed(request)
                      /\ ~Known(request) /\ Queried(answer)
         IN /\ last'.calls = 1 <=> asked
            /\ (asked /\ Resolved(answer)) =>
                  /\ last'.code = OK /\ last'.val = <<answer.appid>>
                  /\ Cached(lru', key) = answer.appid
            /\ (Unasserted(request) /\ WellFormed(request) /\ Known(request)) =>
                  /\ last'.code = OK /\ last'.val = <<Cached(lru, key)>>
                  /\ Cached(lru', key) = Cached(lru, key)
            /\ (asked /\ ~Resolved(answer)) =>
                  /\ last'.code = AuthenticationFailed
                  /\ lru' = lru
            /\ \A k \in CacheKeys :
                  (Cached(lru, k) # None /\ Cached(lru', k) # Cached(lru, k)) =>
                    /\ Cached(lru', k) = None
                    /\ Len(lru._cache) = MaxSize
                    /\ lru._cache[1][1] = k]_vars

(* a request is served from the entry that an earlier lookup stored *)
C39_Witness ==
    /\ last.op = "dispatch" /\ last.hit /\ last.code = OK
    /\ last.val = <<lru.latest[cache_key(last.key)]>>
    /\ Len(lru._cache) = MaxSize

----------------------------------------------------------------------------
(* A cached payload that does not parse (CorruptSpec) *)

(* the step is a main-version pull, an add, an update or a delete of b *)
ReadsCacheStep(b) ==
    /\ last'.op \in {"pull", "add", "update", "delete"}
    /\ last'.b = b /\ last'.v = MainVersion

(* C40: while the payload cached for a bot is not JSON, a main-version     *)
(* pull, an add, an update and a delete of the bot fail with 40003; they   *)
(* issue no statement to the durable store and leave it unchanged, and the *)
(* payload stays in the cache.                                             *)
C40_CorruptPayloadFails ==
    [][\A b \in Bots :
         (ReadsCacheStep(b) /\ RedisValue(cache, b) = Garbled) =>
           /\ last'.code = DataCorruption
           /\ last'.msg = "invalid bot config"
           /\ last'.reads = 0
           /\ db' = db
           /\ RedisValue(cache', b) = Garbled]_vars

(* a delete of a bot that has a record fails on the payload *)
C40_Witness ==
    /\ last.op = "delete" /\ last.code = DataCorruption
    /\ RedisValue(cache, last.b) = Garbled
    /\ MainRowsOfBot(db, last.b) # {}

====
